---- MODULE Spec2Model ----
(***************************************************************************)
(* A model of the grid resampling and surface-compositing engine of the    *)
(* Greenland Sea viewer (src/src/components/Basemap3D.tsx and the App      *)
(* component that drives it).                                              *)
(*                                                                         *)
(* JavaScript numbers are modelled as records: Num(n) is the finite number *)
(* n, NaN is the one non-finite value the JSON inputs can produce.  An     *)
(* array is a record of its length len and its cells at[0..len-1].  A      *)
(* bathymetry grid can hold several hundred thousand cells, so the z       *)
(* arrays are held by description (the file and whether the sign flip was  *)
(* applied) and read cell by cell.                                         *)
(***************************************************************************)
EXTENDS Integers, Sequences, FiniteSets, TLC

\* ------------------------------------------------------------------------
\* JavaScript values
\* ------------------------------------------------------------------------

\* a value is a record: t is "number" (finite, value v), "nan", "null",
\* "string" (a non-numeric string such as the "..." of the README example)
\* or "undefined" (what indexing past the end of an array yields)
Num(n) == [t |-> "number", v |-> n]

NaN == [t |-> "nan", v |-> 0]

JNull == [t |-> "null", v |-> 0]

JStr == [t |-> "string", v |-> 0]

JUndefined == [t |-> "undefined", v |-> 0]

\* Number(v): a number is itself, null is 0, undefined and a non-numeric string are NaN
ToNumber(x) == IF x.t \in {"number", "nan"} THEN x ELSE IF x.t = "null" THEN Num(0) ELSE NaN

\* Number.isFinite(v)
IsFinite(x) == x.t = "number"

\* unary minus: -NaN is NaN
Neg(x) == IF x.t = "number" THEN Num(0 - x.v) ELSE x

\* Math.min(0, v) for a finite v
Min0(x) == IF x.v < 0 THEN x ELSE Num(0)

\* arrays: len cells, at[0] .. at[len - 1]
Arr(n, cells) == [len |-> n, at |-> cells]

Length(a) == a.len

EmptyArr == Arr(0, <<>>)

Push(a, x) == Arr(a.len + 1, [i \in 0..a.len |-> IF i < a.len THEN a.at[i] ELSE x])

\* a[i], undefined past the end
At(a, i) == IF 0 <= i /\ i < a.len THEN a.at[i] ELSE JUndefined

CeilDiv(a, b) == (a + b - 1) \div b

Max(a, b) == IF a >= b THEN a ELSE b

Min(a, b) == IF a <= b THEN a ELSE b

\* ------------------------------------------------------------------------
\* Bounds of the model
\* ------------------------------------------------------------------------

\* small bathymetry grids have 1..MaxDim rows and columns
MaxDim == 2

\* ------------------------------------------------------------------------
\* The bathymetry file: what fetch and r.json() hand to tryLoadBathyJson
\* ------------------------------------------------------------------------
\* A file is held by description, so that a grid of several hundred thousand
\* cells is a small value: lon has nLon entries, lat nLat entries, z has
\* `rows` rows of `cols` cells, cell (j, i) repeating the 2x2 pattern `tile`.
\* bad = "short": row 0 lacks its last cell; bad = "notArray": row 0 is no
\* array.  fetched = FALSE: no candidate URL answered (json stays null).

\* the values a z cell of the file can hold
CellVals == {Num(0 - 2), Num(0), Num(3), JNull, JStr}

\* the two grids of the README and of the specification's scenarios
ScenarioPosTile == << <<Num(2000), Num(2100)>>, <<Num(1900), Num(2050)>> >>

ScenarioNegTile == << <<Num(0 - 2000), Num(0 - 2100)>>, <<Num(0 - 1900), Num(0 - 2050)>> >>

Tiles == { << <<a, b>>, <<c, d>> >> : a \in CellVals, b \in CellVals, c \in CellVals, d \in CellVals }
           \cup {ScenarioPosTile, ScenarioNegTile}

\* the patterns used for the grids above the point budget
LargeTiles == { ScenarioNegTile,
                << <<Num(3), Num(0)>>, <<JStr, Num(3)>> >>,
                << <<Num(0 - 2), Num(3)>>, <<JNull, Num(0)>> >> }

\* <<nLat, nLon>> of the grids above the point budget
LargeSizes == { <<501, 500>>, <<80, 3200>> }

\* a grid one downsampling of which is larger than the budget
OverBudgetSizes == { <<80, 6250>> }

File(fetched, lonIsArr, latIsArr, zIsArr, nLat, nLon, rows, cols, bad, tile) ==
    [fetched |-> fetched, lonIsArr |-> lonIsArr, latIsArr |-> latIsArr, zIsArr |-> zIsArr,
     nLat |-> nLat, nLon |-> nLon, rows |-> rows, cols |-> cols, bad |-> bad, tile |-> tile]

WellFormedFiles ==
    { File(TRUE, TRUE, TRUE, TRUE, n, m, n, m, "none", t) : n \in 1..MaxDim, m \in 1..MaxDim, t \in Tiles }

LargeFiles ==
    { File(TRUE, TRUE, TRUE, TRUE, s[1], s[2], s[1], s[2], "none", t) : s \in LargeSizes, t \in LargeTiles }
    \cup { File(TRUE, TRUE, TRUE, TRUE, s[1], s[2], s[1], s[2], "none", ScenarioNegTile) : s \in OverBudgetSizes }

\* lon, lat or z missing or not an array; no file at all
MissingFiles ==
    { File(f, a, b, c, 2, 2, 2, 2, "none", ScenarioNegTile) :
        f \in BOOLEAN, a \in BOOLEAN, b \in BOOLEAN, c \in BOOLEAN } \ WellFormedFiles

\* ragged rows: a short row, a row that is no array, a row count that is not lat.length
RaggedFiles ==
    ({ File(TRUE, TRUE, TRUE, TRUE, n, m, r, m, bad, t) :
        n \in 1..MaxDim, m \in 1..MaxDim, r \in 0..(MaxDim + 1), bad \in {"none", "short", "notArray"},
        t \in {ScenarioPosTile, ScenarioNegTile} } \ WellFormedFiles)
    \cup { File(TRUE, TRUE, TRUE, TRUE, s[1], s[2], s[1] - d, s[2], bad, ScenarioNegTile) :
        s \in {<<501, 500>>}, d \in 0..1, bad \in {"short", "notArray"} }
    \cup { File(TRUE, TRUE, TRUE, TRUE, s[1], s[2], s[1] - 1, s[2], "none", ScenarioNegTile) : s \in {<<501, 500>>} }

\* empty axes
EmptyFiles ==
    { File(TRUE, TRUE, TRUE, TRUE, n, m, n, m, "none", ScenarioNegTile) : n \in 0..1, m \in 0..1 } \ WellFormedFiles

Files == WellFormedFiles \cup LargeFiles \cup MissingFiles \cup RaggedFiles \cup EmptyFiles

NoFile == File(FALSE, FALSE, FALSE, FALSE, 0, 0, 0, 0, "none", ScenarioNegTile)

\* json.lon and json.lat: strictly increasing coordinates
JsonLon(f) == Arr(f.nLon, [i \in 0..(f.nLon - 1) |-> Num(i - 25)])

JsonLat(f) == Arr(f.nLat, [j \in 0..(f.nLat - 1) |-> Num(j + 62)])

RowIsArray(f, j) == ~(f.bad = "notArray" /\ j = 0)

\* json.z[j][i] of a row that is an array
JsonCell(f, j, i) == f.tile[(j % Len(f.tile)) + 1][(i % Len(f.tile[1])) + 1]

\* ------------------------------------------------------------------------
\* tryLoadBathyJson
\* ------------------------------------------------------------------------

\* zNumeric = json.z.map((row) => (Array.isArray(row) ? row.map((v) => Number(v)) : []))
\* held as the file it was mapped from and whether its cells were negated since
ZNumeric(f) == [file |-> f, flipped |-> FALSE]

\* zNumeric.length
Rows(zn) == zn.file.rows

\* zNumeric[j].length: a row that is no array became []
RowLength(zn, j) ==
    IF ~RowIsArray(zn.file, j) THEN 0
    ELSE IF zn.file.bad = "short" /\ j = 0 THEN Max(0, zn.file.cols - 1)
    ELSE zn.file.cols

\* zNumeric[j][i]
CellAt(zn, j, i) ==
    IF zn.flipped THEN Neg(ToNumber(JsonCell(zn.file, j, i))) ELSE ToNumber(JsonCell(zn.file, j, i))

\* the scan for a finite negative and a finite positive value (zeros skipped)
\* the scan with v <= 0 in place of v < 0
HasNegOrZero(zn) ==
    \E j \in 0..(Rows(zn) - 1) : \E i \in 0..(RowLength(zn, j) - 1) :
        IsFinite(CellAt(zn, j, i)) /\ CellAt(zn, j, i).v <= 0

HasNeg(zn) ==
    \E j \in 0..(Rows(zn) - 1) : \E i \in 0..(RowLength(zn, j) - 1) :
        IsFinite(CellAt(zn, j, i)) /\ CellAt(zn, j, i).v < 0

HasPos(zn) ==
    \E j \in 0..(Rows(zn) - 1) : \E i \in 0..(RowLength(zn, j) - 1) :
        IsFinite(CellAt(zn, j, i)) /\ CellAt(zn, j, i).v > 0

\* if (!hasNeg && hasPos)
NeedsFlip(zn) == ~HasNeg(zn) /\ HasPos(zn)

\* row[i] = -row[i] for every cell of every row
FlipAll(zn) == [zn EXCEPT !.flipped = ~zn.flipped]

\* the one-shot sign normalization: zNumeric after the flip loop
SignNormalize(zn) == IF NeedsFlip(zn) THEN FlipAll(zn) ELSE zn

\* Math.max in place of Math.min
ClampCellMax(x) == IF IsFinite(x) THEN (IF x.v > 0 THEN x ELSE Num(0)) ELSE x

\* (v) => (Number.isFinite(v) ? Math.min(0, v) : v)
ClampCell(x) == IF IsFinite(x) THEN Min0(x) ELSE x

\* zGeom[j][i]: land (positive) clamped to 0, non-finite cells kept
ZGeomAt(zRaw, j, i) == ClampCell(CellAt(zRaw, j, i))

maxPoints == 250000

\* the largest t in lo..(hi - 1) with t * t <= q, by bisection (lo * lo <= q < hi * hi)
RECURSIVE SqrtBetween(_, _, _)
SqrtBetween(lo, hi, q) ==
    IF hi - lo <= 1 THEN lo
    ELSE LET mid == (lo + hi) \div 2
         IN  IF mid <= q \div mid THEN SqrtBetween(mid, hi, q) ELSE SqrtBetween(lo, mid, q)

\* Math.floor(Math.sqrt(a / b)) for integers a >= 0, b > 0: an integer t has
\* t * t <= a / b exactly when t * t <= floor(a / b)
FloorSqrtRatio(a, b) == SqrtBetween(0, (a \div b) + 1, a \div b)

TargetLat(nLat, nLon) == Max(80, FloorSqrtRatio(maxPoints * nLat, nLon))

TargetLon(nLat, nLon) == Max(80, maxPoints \div TargetLat(nLat, nLon))

StrideLat(nLat, nLon) == Max(1, CeilDiv(nLat, TargetLat(nLat, nLon)))

StrideLon(nLat, nLon) == Max(1, CeilDiv(nLon, TargetLon(nLat, nLon)))

\* the stride loop without the push of the last index
StrideIdxNoLast(n, stride) ==
    LET cnt == CeilDiv(n, stride)
    IN  Arr(cnt, [k \in 0..(cnt - 1) |-> k * stride])

\* for (j = 0; j < n; j += stride) idx.push(j); then the last index if it is missing
StrideIdx(n, stride) ==
    LET cnt == CeilDiv(n, stride)
        steps == Arr(cnt, [k \in 0..(cnt - 1) |-> k * stride])
    IN  IF steps.at[cnt - 1] # n - 1 THEN Push(steps, n - 1) ELSE steps

\* the grid exceeds the point budget
OverBudget(nLat, nLon) == nLat * nLon > maxPoints /\ nLat > 0 /\ nLon > 0

LatIdx(nLat, nLon) == StrideIdx(nLat, StrideLat(nLat, nLon))

LonIdx(nLat, nLon) == StrideIdx(nLon, StrideLon(nLat, nLon))

\* z[j] is undefined for a selected row j: reading z[j][i] throws a TypeError
PickThrows(zRaw, latIdx) == \E r \in 0..(latIdx.len - 1) : latIdx.at[r] >= Rows(zRaw)

\* what tryLoadBathyJson returns: ok = FALSE is null; down tells whether the
\* grid was downsampled to the rows latIdx and the columns lonIdx of zRaw
Grid(ok, down, zRaw, latIdx, lonIdx) ==
    [ok |-> ok, down |-> down, zRaw |-> zRaw, latIdx |-> latIdx, lonIdx |-> lonIdx]

NoGrid == Grid(FALSE, FALSE, ZNumeric(NoFile), EmptyArr, EmptyArr)

TryLoadBathyJson(f) ==
    IF ~f.fetched THEN NoGrid
    ELSE IF ~(f.lonIsArr /\ f.latIsArr /\ f.zIsArr) THEN NoGrid
    ELSE
      LET zRaw == SignNormalize(ZNumeric(f))
          nLat == f.nLat
          nLon == f.nLon
      IN  IF OverBudget(nLat, nLon)
          THEN LET latIdx == LatIdx(nLat, nLon)
                   lonIdx == LonIdx(nLat, nLon)
               IN  IF PickThrows(zRaw, latIdx) THEN NoGrid
                   ELSE Grid(TRUE, TRUE, zRaw, latIdx, lonIdx)
          ELSE Grid(TRUE, FALSE, zRaw, EmptyArr, EmptyArr)

\* the arrays of the returned grid g

\* lonIdx.map((i) => Number(axis[i]))
PickAxis(axis, idx) == Arr(idx.len, [c \in 0..(idx.len - 1) |-> ToNumber(At(axis, idx.at[c]))])

GridLon(g) == IF g.down THEN PickAxis(JsonLon(g.zRaw.file), g.lonIdx) ELSE JsonLon(g.zRaw.file)

GridLat(g) == IF g.down THEN PickAxis(JsonLat(g.zRaw.file), g.latIdx) ELSE JsonLat(g.zRaw.file)

\* g.z.length and g.z[r].length
GridRows(g) == IF g.down THEN g.latIdx.len ELSE Rows(g.zRaw)

GridRowLength(g, r) == IF g.down THEN g.lonIdx.len ELSE RowLength(g.zRaw, r)

\* Number(zRaw[j][i]), where zRaw[j][i] is undefined past the end of row j
PickRaw(zRaw, j, i) == IF i < RowLength(zRaw, j) THEN ToNumber(CellAt(zRaw, j, i)) ELSE ToNumber(JUndefined)

\* Number(z[j][i]) of the clamped grid
PickGeom(zRaw, j, i) == IF i < RowLength(zRaw, j) THEN ToNumber(ZGeomAt(zRaw, j, i)) ELSE ToNumber(JUndefined)

\* g.zRaw[r][c]
GridZRawAt(g, r, c) ==
    IF g.down THEN PickRaw(g.zRaw, g.latIdx.at[r], g.lonIdx.at[c]) ELSE CellAt(g.zRaw, r, c)

\* g.z[r][c]
GridZAt(g, r, c) ==
    IF g.down THEN PickGeom(g.zRaw, g.latIdx.at[r], g.lonIdx.at[c]) ELSE ZGeomAt(g.zRaw, r, c)

\* ------------------------------------------------------------------------
\* depthWarp and scaleZ
\* ------------------------------------------------------------------------
\* Metres and ratios are held in hundredths: 2500 m is Num(250000), the ratio
\* 0.25 is Num(25); the product of two such numbers is divided by 100.

\* n metres (or the ratio n)
Whole(n) == Num(n * 100)

\* x ?? d
OrElse(x, d) == IF x.t \in {"undefined", "null"} THEN d ELSE x

\* Math.min(hi, x) alone
ClampUpperOnly(lo, hi, x) ==
    IF ~IsFinite(x) THEN NaN
    ELSE IF x.v > hi.v THEN hi
    ELSE x

\* Math.max(lo, Math.min(hi, x)): NaN stays NaN
Clamp(lo, hi, x) ==
    IF ~IsFinite(x) THEN NaN
    ELSE IF x.v > hi.v THEN hi
    ELSE IF x.v < lo.v THEN lo
    ELSE x

\* props.depthWarp: mode is "linear", "upper" or "undefined"
WarpProp(mode, focusDepthM, deepRatio) == [mode |-> mode, focusDepthM |-> focusDepthM, deepRatio |-> deepRatio]

\* the depthWarp memo
DepthWarp(p) ==
    [mode |-> IF p.mode = "undefined" THEN "linear" ELSE p.mode,
     focusDepthM |-> Clamp(Whole(50), Whole(20000), ToNumber(OrElse(p.focusDepthM, Whole(2500)))),
     deepRatio |-> Clamp(Num(5), Whole(1), ToNumber(OrElse(p.deepRatio, Num(25))))]

\* the compression without the focus offset
CompressedNoOffset(depth, focus, ratio) ==
    IF ~IsFinite(focus) \/ ~IsFinite(ratio) THEN NaN
    ELSE Num(0 - (((depth - focus.v) * ratio.v) \div 100))

\* focus + (depth - focus) * deepRatio, negated; NaN when focus or ratio is NaN
Compressed(depth, focus, ratio) ==
    IF ~IsFinite(focus) \/ ~IsFinite(ratio) THEN NaN
    ELSE Num(0 - (focus.v + ((depth - focus.v) * ratio.v) \div 100))

\* depth <= focus: false when focus is NaN
NotBelowFocus(depth, focus) == IsFinite(focus) /\ depth <= focus.v

\* scaleZ(z) under the warp w
ScaleZ(w, z) ==
    LET v == ToNumber(z)
    IN  IF ~IsFinite(v) THEN v
        ELSE IF v.v >= 0 THEN v
        ELSE IF w.mode = "linear" THEN v
        ELSE IF NotBelowFocus(0 - v.v, w.focusDepthM) THEN v
        ELSE Compressed(0 - v.v, w.focusDepthM, w.deepRatio)

\* the depth-warp settings the App can pass: absent, or any finite number
WarpModes == {"undefined", "linear", "upper"}

FocusChoices == {JUndefined} \cup {Whole(n) : n \in {0, 49, 50, 51, 2500, 6000, 20000, 20001, 30000}}

RatioChoices == {JUndefined} \cup {Num(n) : n \in {0, 4, 5, 25, 50, 100, 101, 200}}

\* the z values scaleZ is called with (metres)
WarpDepths == {100, 0, 0 - 1, 0 - 49, 0 - 50, 0 - 51, 0 - 2499, 0 - 2500, 0 - 2501, 0 - 6000, 0 - 6001,
               0 - 19999, 0 - 20000, 0 - 20001, 0 - 30000}

WarpInputs == {NaN} \cup {Whole(d) : d \in WarpDepths}

\* ------------------------------------------------------------------------
\* overlaySurfacecolor: nearest-neighbour resampling onto the bathymetry grid
\* ------------------------------------------------------------------------

Abs(x) == IF x < 0 THEN 0 - x ELSE x

\* the loop over the source axis: the first index with the least |axis[i] - x|
RECURSIVE NearestFrom(_, _, _, _, _)
NearestFrom(axis, x, i, best, bestD) ==
    IF i >= axis.len THEN best
    ELSE LET d == Abs(axis.at[i] - x)
         IN  IF bestD < 0 \/ d < bestD
             THEN NearestFrom(axis, x, i + 1, i, d)
             ELSE NearestFrom(axis, x, i + 1, best, bestD)

\* the loop with d <= bestD: the last of the closest indices
NearestIndexLast(axis, x) ==
    IF axis.len = 0 THEN 0
    ELSE CHOOSE k \in 0..(axis.len - 1) :
           /\ \A m \in 0..(axis.len - 1) : Abs(axis.at[k] - x) <= Abs(axis.at[m] - x)
           /\ \A m \in (k + 1)..(axis.len - 1) : Abs(axis.at[m] - x) > Abs(axis.at[k] - x)

\* best = 0, bestD = Infinity (held as -1)
NearestIndex(axis, x) == NearestFrom(axis, x, 0, 0, 0 - 1)

\* bathy.lon.map((x) => nearest index into the field axis)
IndexMap(target, axis) == Arr(target.len, [k \in 0..(target.len - 1) |-> NearestIndex(axis, target.at[k])])

\* fieldValues[srcJ] ?? []
RowOrEmpty(values, j) == IF 0 <= j /\ j < values.len THEN values.at[j] ELSE EmptyArr

\* the nearest-neighbour loop over the bathymetry cells
Resample(values, fLon, fLat, bLon, bLat) ==
    LET lonMap == IndexMap(bLon, fLon)
        latMap == IndexMap(bLat, fLat)
    IN  Arr(bLat.len, [j \in 0..(bLat.len - 1) |->
            Arr(bLon.len, [i \in 0..(bLon.len - 1) |->
                ToNumber(At(RowOrEmpty(values, latMap.at[j]), lonMap.at[i]))])])

\* fieldValues[0]?.length ?? 0
FirstRowLength(values) == IF values.len > 0 THEN values.at[0].len ELSE 0

\* rows compared with longitudes and columns with latitudes
SameShapeSwapped(values, bLon, bLat) == values.len = bLon.len /\ FirstRowLength(values) = bLat.len

\* the field's shape is the bathymetry grid's
SameShape(values, bLon, bLat) == values.len = bLat.len /\ FirstRowLength(values) = bLon.len

\* a field: present (numericH is not null), values, and lon and lat when hasAxes
Field(present, values, hasAxes, lon, lat) ==
    [present |-> present, values |-> values, hasAxes |-> hasAxes, lon |-> lon, lat |-> lat]

\* overlaySurfacecolor for the field h, the PNG colour grid png and the bathymetry axes
OverlaySurfacecolor(h, png, bLon, bLat) ==
    IF ~h.present THEN png
    ELSE IF SameShape(h.values, bLon, bLat) THEN [defined |-> TRUE, values |-> h.values]
    ELSE IF ~h.hasAxes THEN [defined |-> TRUE, values |-> h.values]
    ELSE [defined |-> TRUE, values |-> Resample(h.values, h.lon, h.lat, bLon, bLat)]

NoField == Field(FALSE, EmptyArr, FALSE, EmptyArr, EmptyArr)

\* the PNG colour grid: horizontalColor?.surfacecolor, undefined when there is none
Surfacecolor(defined, values) == [defined |-> defined, values |-> values]

NoSurfacecolor == Surfacecolor(FALSE, EmptyArr)

MaxAxis == 2

LonCoords == {0, 5, 10}

LatCoords == {60, 62}

\* a strictly monotonic axis, ascending or descending
Monotonic(f, n) ==
    \/ \A a \in 0..(n - 2) : f[a] < f[a + 1]
    \/ \A a \in 0..(n - 2) : f[a] > f[a + 1]

AxesOver(coords) ==
    UNION {{Arr(n, f) : f \in {g \in [0..(n - 1) -> coords] : Monotonic(g, n)}} : n \in 1..MaxAxis}

\* the worked example: field longitudes -10, -5, 0 onto bathymetry longitudes -10, -7, -4, -1, 2
ScenarioFieldLon == Arr(3, [i \in 0..2 |-> (5 * i) - 10])

ScenarioBathyLon == Arr(5, [i \in 0..4 |-> (3 * i) - 10])

ScenarioLat == Arr(1, [j \in 0..0 |-> 61])

\* a values array of the given shape: cell (j, i) holds 10 j + i + 1; the "gap"
\* variant has NaN in cell (0, 0), the "short" variant lacks the last column
FieldValues(rows, cols, variant) ==
    LET width == IF variant = "short" THEN cols - 1 ELSE cols
    IN  Arr(rows, [j \in 0..(rows - 1) |->
            Arr(width, [i \in 0..(width - 1) |->
                IF variant = "gap" /\ j = 0 /\ i = 0 THEN NaN ELSE Num((10 * j) + i + 1)])])

\* the example's values: each cell holds its own longitude
ScenarioValues == Arr(1, [j \in 0..0 |-> Arr(3, [i \in 0..2 |-> Num(ScenarioFieldLon.at[i])])])

Fields ==
    {NoField}
    \cup {Field(TRUE, FieldValues(lat.len, lon.len, variant), TRUE, lon, lat) :
             lon \in AxesOver(LonCoords), lat \in AxesOver(LatCoords), variant \in {"full", "gap", "short"}}
    \cup {Field(TRUE, FieldValues(rows, cols, variant), FALSE, EmptyArr, EmptyArr) :
             rows \in 1..MaxAxis, cols \in 1..MaxAxis, variant \in {"full", "gap"}}
    \cup {Field(TRUE, ScenarioValues, TRUE, ScenarioFieldLon, ScenarioLat)}

BathyAxes ==
    {[lon |-> lon, lat |-> lat] : lon \in AxesOver(LonCoords), lat \in AxesOver(LatCoords)}
    \cup {[lon |-> ScenarioBathyLon, lat |-> ScenarioLat]}

Surfacecolors == {NoSurfacecolor, Surfacecolor(TRUE, FieldValues(1, 1, "full"))}

\* ------------------------------------------------------------------------
\* The loading effects of Basemap3D and App
\* ------------------------------------------------------------------------
\* What a request returns is held as the request's number within its effect:
\* 0 is null, k is the grid, image, values or error of the effect's k-th run.

Effects == {"bathy", "horizontalImg", "transectImg", "meta", "slice", "seaIce", "wind"}

ViewModes == {"horizontal", "transect", "class"}

\* const projectOn3d = true
projectOn3d == TRUE

\* the useState initial values
InitialUi ==
    [bathyStatus |-> "loading", grid |-> 0,
     horizontalImg |-> 0, horizontalImgStatus |-> "off",
     transectImg |-> 0, transectImgStatus |-> "off",
     meta |-> 0, metaStatus |-> "loading", metaError |-> 0, timeIdx |-> 0, depthIdx |-> 0,
     sliceStatus |-> "off", sliceError |-> 0, classStatus |-> "off", classError |-> 0,
     horizontalValues |-> 0, transectValues |-> 0, transectLatActual |-> 0, classTraces |-> 0,
     seaIceStatus |-> "off", seaIceError |-> 0, seaIceValues |-> 0,
     windStatus |-> "off", windError |-> 0, windStress |-> 0]

\* a load in flight: the promise and the cancelled flag of the closure that awaits it
Load(effect, id, viewMode) == [effect |-> effect, id |-> id, cancelled |-> FALSE, viewMode |-> viewMode]

NoLoad == [effect |-> "none", id |-> 0, cancelled |-> FALSE, viewMode |-> "none"]

\* the completion handlers without their cancelled test
NeverDiscarded(l) == FALSE

\* if (cancelled) return;
Discarded(l) == l.cancelled

\* the cleanup of the effect's previous run: cancelled = true
CleanedUp(ls, effect) ==
    {IF l.effect = effect THEN [l EXCEPT !.cancelled = TRUE] ELSE l : l \in ls}

\* !meta || metaStatus !== "ready"
MetaNotReady(u) == u.meta = 0 \/ u.metaStatus # "ready"

\* ------------------------------------------------------------------------
\* The surface plane and its mask (valuesMasked)
\* ------------------------------------------------------------------------

\* the widest row of a plane
MaxMaskCols == 2

\* the mask settings of a field: zeroAsMissing and maskDryByBathy are "true",
\* "false" or "undefined"; bounds is NoBounds or a LonLatBounds
MaskOpts(zeroAsMissing, maskDryByBathy, bounds) ==
    [zeroAsMissing |-> zeroAsMissing, maskDryByBathy |-> maskDryByBathy, bounds |-> bounds]

Bounds(lonMin, lonMax, latMin, latMax) ==
    [present |-> TRUE, lonMin |-> lonMin, lonMax |-> lonMax, latMin |-> latMin, latMax |-> latMax]

NoBounds == [present |-> FALSE, lonMin |-> 0, lonMax |-> 0, latMin |-> 0, latMax |-> 0]

\* the bathymetry in use: the file's grid (with zRaw) or the synthetic one (without)
Bathy(lon, lat, z, hasZRaw, zRaw) == [lon |-> lon, lat |-> lat, z |-> z, hasZRaw |-> hasZRaw, zRaw |-> zRaw]

\* bathyHasOceanNeg: a finite zRaw value below -0.5 (depths are whole metres here)
BathyHasOceanNeg(b) ==
    /\ b.hasZRaw
    /\ \E j \in 0..(b.zRaw.len - 1) : \E i \in 0..(b.zRaw.at[j].len - 1) :
          IsFinite(ToNumber(b.zRaw.at[j].at[i])) /\ ToNumber(b.zRaw.at[j].at[i]).v < 0

\* the plane of the surface overlay: x, y, values and the three mask settings
Plane(x, y, values, bounds, zeroAsMissing, maskDryByBathy) ==
    [x |-> x, y |-> y, values |-> values, bounds |-> bounds,
     zeroAsMissing |-> zeroAsMissing, maskDryByBathy |-> maskDryByBathy]

\* the plane chosen for the field h with settings o, the overlay colours sc,
\* the bounds of the image overlay pngBounds and the bathymetry b
PlaneOf(h, o, sc, pngBounds, b) ==
    IF h.present
    THEN IF h.hasAxes /\ h.lon.len = FirstRowLength(h.values) /\ h.lat.len = h.values.len
         THEN Plane(h.lon, h.lat, h.values, o.bounds, o.zeroAsMissing = "true", o.maskDryByBathy # "false")
         ELSE IF h.values.len = b.lat.len /\ FirstRowLength(h.values) = b.lon.len
         THEN Plane(b.lon, b.lat, h.values, o.bounds, o.zeroAsMissing = "true", o.maskDryByBathy # "false")
         ELSE Plane(b.lon, b.lat, IF sc.defined THEN sc.values ELSE h.values,
                    o.bounds, o.zeroAsMissing = "true", o.maskDryByBathy # "false")
    ELSE Plane(b.lon, b.lat, sc.values, pngBounds, FALSE, FALSE)

\* Number(bathy.z[jj]?.[ii]) at the bathymetry cell nearest to plane cell (j, i)
NearestDepth(plane, j, i, b) ==
    LET jj == NearestIndex(b.lat, plane.y.at[j])
        ii == NearestIndex(b.lon, plane.x.at[i])
    IN  IF jj < b.z.len THEN ToNumber(At(b.z.at[jj], ii)) ELSE NaN

\* lon >= min && lon <= max && lat >= min && lat <= max; a comparison with
\* undefined (an index past the axis) is false
Inside(plane, j, i) ==
    /\ i < plane.x.len /\ j < plane.y.len
    /\ plane.x.at[i] >= Min(plane.bounds.lonMin, plane.bounds.lonMax)
    /\ plane.x.at[i] <= Max(plane.bounds.lonMin, plane.bounds.lonMax)
    /\ plane.y.at[j] >= Min(plane.bounds.latMin, plane.bounds.latMax)
    /\ plane.y.at[j] <= Max(plane.bounds.latMin, plane.bounds.latMax)

\* a dry test that does not look at the value of the cell
MaskedAsDryAnyValue(plane, j, i, b, val) ==
    /\ BathyHasOceanNeg(b) /\ plane.maskDryByBathy
    /\ i < plane.x.len /\ j < plane.y.len
    /\ IsFinite(NearestDepth(plane, j, i, b))
    /\ NearestDepth(plane, j, i, b).v >= 0

\* the dry test: maybeFill on a cell whose nearest depth is finite and >= -1e-6
MaskedAsDry(plane, j, i, b, val) ==
    /\ BathyHasOceanNeg(b) /\ val.v = 0 /\ plane.maskDryByBathy
    /\ i < plane.x.len /\ j < plane.y.len
    /\ IsFinite(NearestDepth(plane, j, i, b))
    /\ NearestDepth(plane, j, i, b).v >= 0

\* the zero-as-missing test read from maskDryByBathy
ZeroIsMissingByDryFlag(plane) == plane.maskDryByBathy

\* plane.zeroAsMissing
ZeroIsMissing(plane) == plane.zeroAsMissing

\* !Number.isFinite(val)
Missing(val) == ~IsFinite(val)

\* a cell masker that fills a non-finite value with 0 first (Number(v) || 0)
MaskedCellFilled(plane, j, i, b) ==
    LET raw == ToNumber(plane.values.at[j].at[i])
        val == IF IsFinite(raw) THEN raw ELSE Num(0)
    IN  IF ZeroIsMissing(plane) /\ val.v = 0 THEN NaN
        ELSE IF MaskedAsDry(plane, j, i, b, val) THEN NaN
        ELSE IF plane.bounds.present /\ ~Inside(plane, j, i) THEN NaN
        ELSE val

\* one cell of valuesMasked
MaskedCell(plane, j, i, b) ==
    LET val == ToNumber(plane.values.at[j].at[i])
    IN  IF Missing(val) THEN NaN
        ELSE IF ZeroIsMissing(plane) /\ val.v = 0 THEN NaN
        ELSE IF MaskedAsDry(plane, j, i, b, val) THEN NaN
        ELSE IF plane.bounds.present /\ ~Inside(plane, j, i) THEN NaN
        ELSE val

\* valuesMasked
ValuesMasked(plane, b) ==
    Arr(plane.values.len, [j \in 0..(plane.values.len - 1) |->
        Arr(plane.values.at[j].len, [i \in 0..(plane.values.at[j].len - 1) |->
            MaskedCell(plane, j, i, b)])])

\* ---- the inputs of the mask

MaskCellVals == {NaN, Num(0), Num(7)}

MaskLonCoords == {0, 4, 10}

MaskLat == Arr(1, [j \in 0..0 |-> 60])

\* the axes of a plane row: strictly monotonic, at most MaxMaskCols long
MaskAxes ==
    UNION {{Arr(n, f) : f \in {g \in [0..(n - 1) -> MaskLonCoords] : Monotonic(g, n)}} : n \in 1..MaxMaskCols}

\* one row of n cells
MaskRows(n) == {Arr(1, [j \in 0..0 |-> Arr(n, c)]) : c \in [0..(n - 1) -> MaskCellVals]}

MaskFields ==
    UNION {{Field(TRUE, v, hasAxes, IF hasAxes THEN lon ELSE EmptyArr, IF hasAxes THEN MaskLat ELSE EmptyArr) :
              v \in MaskRows(lon.len), hasAxes \in BOOLEAN} : lon \in MaskAxes}

MaskBounds == {NoBounds, Bounds(0, 4, 50, 70), Bounds(10, 4, 70, 50)}

MaskOptions ==
    {MaskOpts(z, m, bd) : z \in {"true", "false", "undefined"},
                          m \in {"true", "false", "undefined"}, bd \in MaskBounds}

\* bathymetries on the longitudes 0 and 10: a file grid of signed depths, or the synthetic grid
MaskDepths == {Num(0 - 2000), Num(0), Num(3)}

MaskBathyLon == Arr(2, [i \in 0..1 |-> 10 * i])

MaskBathys ==
    {Bathy(MaskBathyLon, MaskLat,
           Arr(1, [j \in 0..0 |-> Arr(2, [i \in 0..1 |-> Min0(zr[i])])]),
           hasZRaw,
           Arr(1, [j \in 0..0 |-> Arr(2, zr)])) :
        zr \in [0..1 -> MaskDepths], hasZRaw \in BOOLEAN}

\* nothing computed yet
NoMask == [made |-> FALSE]

\* ------------------------------------------------------------------------
\* makeLinearPalette
\* ------------------------------------------------------------------------
\* A hex stop is held as its hex digits (values 0..15) and whether it begins
\* with "#"; an RGB is a record of three bytes.

MaxStops == 3

MaxPaletteN == 4

HexStop(hash, digits) == [hash |-> hash, digits |-> digits]

Rgb(r, g, b) == [r |-> r, g |-> g, b |-> b]

\* what a call returns: an array, or an exception
Returned(out) == [threw |-> FALSE, out |-> out]

Threw == [threw |-> TRUE, out |-> EmptyArr]

\* hexToRgb on a stop of six digits: the three bytes of the parsed number
HexToRgb(hex) ==
    Rgb((16 * hex.digits[1]) + hex.digits[2],
        (16 * hex.digits[3]) + hex.digits[4],
        (16 * hex.digits[5]) + hex.digits[6])

\* h.length !== 6: hexToRgb throws
HexThrows(hex) == Len(hex.digits) # 6

\* Math.round(x) for x = num / den, den > 0: halves go up
RoundDiv(num, den) == ((2 * num) + den) \div (2 * den)

\* Math.max(0, Math.min(255, Math.round(x)))
ClampByte(x) == Max(0, Min(255, x))

\* clampByte(lerp(a, b, local)) with local = num / den
LerpByte(a, b, num, den) == ClampByte(RoundDiv((a * den) + ((b - a) * num), den))

\* sample i of n along the stops: t = i / (n - 1), s = t * segments,
\* seg = min(segments - 1, floor(s)), local = s - seg
PaletteSample(stops, n, i) ==
    LET segments == stops.len - 1
        seg == Min(segments - 1, (i * segments) \div (n - 1))
        num == (i * segments) - (seg * (n - 1))
        a == stops.at[seg]
        b == stops.at[seg + 1]
    IN  Rgb(LerpByte(a.r, b.r, num, n - 1), LerpByte(a.g, b.g, num, n - 1), LerpByte(a.b, b.b, num, n - 1))

\* the loop with i < n - 1
PaletteLoopShort(stops, n) == Arr(n - 1, [i \in 0..(n - 2) |-> PaletteSample(stops, n, i)])

\* for (let i = 0; i < n; i++) out.push(...)
PaletteLoop(stops, n) == Arr(n, [i \in 0..(n - 1) |-> PaletteSample(stops, n, i)])

\* makeLinearPalette(hexStops, n), hexStops a sequence of stops
MakeLinearPalette(hexStops, n) ==
    IF n <= 0 THEN Returned(EmptyArr)
    ELSE IF Len(hexStops) < 2 THEN Threw
    ELSE IF n = 1
    THEN IF HexThrows(hexStops[1]) THEN Threw
         ELSE Returned(Arr(1, [i \in 0..0 |-> HexToRgb(hexStops[1])]))
    ELSE IF \E k \in 1..Len(hexStops) : HexThrows(hexStops[k]) THEN Threw
    ELSE Returned(PaletteLoop(Arr(Len(hexStops), [k \in 0..(Len(hexStops) - 1) |-> HexToRgb(hexStops[k + 1])]), n))

\* ---- the inputs of makeLinearPalette

\* "#313695", "#ffffbf", "a50026", "#000000", and the malformed "#fff"
HexStops ==
    {HexStop(TRUE, <<3, 1, 3, 6, 9, 5>>), HexStop(TRUE, <<15, 15, 15, 15, 11, 15>>),
     HexStop(FALSE, <<10, 5, 0, 0, 2, 6>>), HexStop(TRUE, <<0, 0, 0, 0, 0, 0>>),
     HexStop(TRUE, <<15, 15, 15>>)}

StopLists == UNION {[1..k -> HexStops] : k \in 0..MaxStops}

PaletteCounts == (0 - 1)..MaxPaletteN

NoPalette == [made |-> FALSE]

\* ------------------------------------------------------------------------
\* The wind particles
\* ------------------------------------------------------------------------
\* Positions are whole thousandths of a degree, velocities hundredths of the
\* field's unit, times thirds of a millisecond (so that 1/60 s is 50 and the
\* clamp [0.001, 0.1] s is [3, 300]); a quotient is rounded to the unit.
\* lon and lat are sequences of positions, u and v sequences of rows of
\* JS values holding whole field units.

MaxWind == 3

WindLayer(enabled, lon, lat, u, v, speed, size) ==
    [enabled |-> enabled, lon |-> lon, lat |-> lat, u |-> u, v |-> v, speed |-> speed, size |-> size]

\* Number(u[j]?.[i]) in hundredths
WindCell(m, j, i) ==
    IF j + 1 \in DOMAIN m /\ i + 1 \in DOMAIN m[j + 1]
    THEN LET c == ToNumber(m[j + 1][i + 1]) IN IF IsFinite(c) THEN Num(c.v * 100) ELSE c
    ELSE NaN

\* the early returns of the effect
WindRuns(layer) ==
    /\ layer.enabled
    /\ Len(layer.lon) # 0 /\ Len(layer.lat) # 0
    /\ Len(layer.u) = Len(layer.lat) /\ Len(layer.v) = Len(layer.lat)
    /\ Len(layer.u[1]) = Len(layer.lon) /\ Len(layer.v[1]) = Len(layer.lon)

\* Math.hypot(a, b), rounded down to the unit
Hypot(a, b) == SqrtBetween(0, Abs(a) + Abs(b) + 1, (a * a) + (b * b))

\* Math.max(1e-9, hi - lo): the smallest span is the smallest step a position can take
Span(lo, hi) == Max(1, hi - lo)

\* the largest Math.hypot(u, v) over the cells where both are finite
RECURSIVE MaxMagFrom(_, _, _, _)
MaxMagFrom(layer, j, i, best) ==
    IF j >= Len(layer.lat) THEN best
    ELSE IF i >= Len(layer.lon) THEN MaxMagFrom(layer, j + 1, 0, best)
    ELSE LET uu == WindCell(layer.u, j, i)
             vv == WindCell(layer.v, j, i)
         IN  IF IsFinite(uu) /\ IsFinite(vv)
             THEN MaxMagFrom(layer, j, i + 1, Max(best, Hypot(uu.v, vv.v)))
             ELSE MaxMagFrom(layer, j, i + 1, best)

\* 0.9 * Math.max(0.1, Number(layer.speed ?? 1)), in thousandths of a degree per second
TargetDegPerSec(layer) ==
    LET speed == ToNumber(OrElse(layer.speed, Num(1)))
    IN  IF speed.v < 1 THEN 90 ELSE 900 * speed.v

\* maxMag > 1e-6 ? Math.min(120, targetDegPerSec / maxMag) : 0, as the
\* fraction n / d that takes a velocity times a time to a displacement
AdvectScale(layer, maxMag) ==
    IF maxMag <= 0 THEN [n |-> 0, d |-> 1]
    ELSE IF TargetDegPerSec(layer) >= 1200 * maxMag THEN [n |-> 2, d |-> 5]
    ELSE [n |-> TargetDegPerSec(layer), d |-> 3000 * maxMag]

\* Math.max(6, Math.min(22, Math.round((layer.size ?? 1.4) * 7))), size in hundredths
TrailLen(layer) == Max(6, Min(22, RoundDiv(OrElse(layer.size, Num(140)).v * 7, 100)))

\* what the effect computes once from the layer
WindEnv(layer) ==
    LET nx == Len(layer.lon)
        ny == Len(layer.lat)
        lonStart == layer.lon[1]
        lonEnd == layer.lon[nx]
        latStart == layer.lat[1]
        latEnd == layer.lat[ny]
        maxMag == MaxMagFrom(layer, 0, 0, 0)
    IN  [nx |-> nx, ny |-> ny, u |-> layer.u, v |-> layer.v,
         lonMin |-> Min(lonStart, lonEnd), lonMax |-> Max(lonStart, lonEnd),
         latMin |-> Min(latStart, latEnd), latMax |-> Max(latStart, latEnd),
         lonSpan |-> Span(Min(lonStart, lonEnd), Max(lonStart, lonEnd)),
         latSpan |-> Span(Min(latStart, latEnd), Max(latStart, latEnd)),
         lonAsc |-> lonEnd >= lonStart, latAsc |-> latEnd >= latStart,
         maxMag |-> maxMag, advectScale |-> AdvectScale(layer, maxMag), trailLen |-> TrailLen(layer)]

\* p.x < lonMin || p.x > lonMax || p.y < latMin || p.y > latMax
OutsideBox(env, x, y) == x < env.lonMin \/ x > env.lonMax \/ y < env.latMin \/ y > env.latMax

\* toLonCoord(x) * lonSpan and toLatCoord(y) * latSpan
ToCoord(pos, lo, span, n, asc) ==
    LET c == (pos - lo) * (n - 1) IN IF asc THEN c ELSE ((n - 1) * span) - c

NoSample == [ok |-> FALSE, uu |-> 0, vv |-> 0]

\* the weighted sums over the four corners, skipping a corner whose u or v is not finite
RECURSIVE SumCorners(_, _, _, _)
SumCorners(env, corners, k, acc) ==
    IF k > Len(corners) THEN acc
    ELSE LET c == corners[k]
             uu == WindCell(env.u, c.j, c.i)
             vv == WindCell(env.v, c.j, c.i)
         IN  IF ~IsFinite(uu) \/ ~IsFinite(vv) THEN SumCorners(env, corners, k + 1, acc)
             ELSE CHOOSE sum \in {SumCorners(env, corners, k + 1, added) :
                              added \in {[w |-> acc.w + c.w, u |-> acc.u + (uu.v * c.w), v |-> acc.v + (vv.v * c.w)]}} : TRUE

\* sample without the test of the bounding box
SampleAnywhere(env, x, y) ==
    LET cx == ToCoord(x, env.lonMin, env.lonSpan, env.nx, env.lonAsc)
        cy == ToCoord(y, env.latMin, env.latSpan, env.ny, env.latAsc)
        i0 == Max(0, Min(env.nx - 1, cx \div env.lonSpan))
        j0 == Max(0, Min(env.ny - 1, cy \div env.latSpan))
        i1 == Min(env.nx - 1, i0 + 1)
        j1 == Min(env.ny - 1, j0 + 1)
        fx == Max(0, Min(env.lonSpan, cx - (i0 * env.lonSpan)))
        fy == Max(0, Min(env.latSpan, cy - (j0 * env.latSpan)))
        corners == <<[i |-> i0, j |-> j0, w |-> (env.lonSpan - fx) * (env.latSpan - fy)],
                     [i |-> i1, j |-> j0, w |-> fx * (env.latSpan - fy)],
                     [i |-> i0, j |-> j1, w |-> (env.lonSpan - fx) * fy],
                     [i |-> i1, j |-> j1, w |-> fx * fy]>>
    IN  CHOOSE w \in {IF sum.w <= (env.lonSpan * env.latSpan) \div 100000000 THEN NoSample
                      ELSE [ok |-> TRUE, uu |-> RoundDiv(sum.u, sum.w), vv |-> RoundDiv(sum.v, sum.w)] :
                      sum \in {SumCorners(env, cs, 1, [w |-> 0, u |-> 0, v |-> 0]) : cs \in {corners}}} : TRUE

\* sample(x, y): null outside the bounding box, else the bilinear mean of
\* the finite corners (weights are in units of 1 / (lonSpan * latSpan))
Sample(env, x, y) == IF OutsideBox(env, x, y) THEN NoSample ELSE SampleAnywhere(env, x, y)

Particle(x, y, ttl, speedMag) ==
    [x |-> x, y |-> y, ttl |-> ttl, speedMag |-> speedMag, trailX |-> <<x>>, trailY |-> <<y>>]

\* the values Math.random() takes, as fractions
Randoms == {<<0, 1>>, <<1, 4>>, <<3, 4>>}

\* the values Math.random() takes for a time to live
TtlRandoms == {<<0, 1>>, <<1, 4>>}

\* 2 + Math.random() * 6 seconds
Ttl(r) == 6000 + ((r[1] * 18000) \div r[2])

\* lonMin + Math.random() * lonSpan
RandomIn(lo, span, r) == lo + RoundDiv(r[1] * span, r[2])

\* speedMag > 1e-8: the particle of the pass, with any time to live
SpawnMoving(x, y, speedMag) ==
    IF speedMag <= 0 THEN {} ELSE {Particle(x, y, Ttl(r), speedMag) : r \in TtlRandoms}

\* the end of a pass of the loop of spawn at (x, y) where sample gave w
SpawnAt(x, y, w) ==
    IF ~w.ok THEN {}
    ELSE SpawnMoving(x, y, Hypot(w.uu, w.vv))

\* one pass of the loop of spawn at the random point (rx, ry): the particle it returns, if any
SpawnTry(env, rx, ry) ==
    UNION {SpawnAt(RandomIn(env.lonMin, env.lonSpan, rx), RandomIn(env.latMin, env.latSpan, ry), w) :
           w \in {Sample(env, RandomIn(env.lonMin, env.lonSpan, rx), RandomIn(env.latMin, env.latSpan, ry))}}

\* a fallback that is already expired
SpawnExpired(env) == {Particle((env.lonMin + env.lonMax) \div 2, (env.latMin + env.latMax) \div 2, 0, 0)}

\* the particle after the loop: the centre of the box, at rest
SpawnFallback(env) ==
    {Particle((env.lonMin + env.lonMax) \div 2, (env.latMin + env.latMax) \div 2, Ttl(r), 0) : r \in TtlRandoms}

\* passes k..59 of the loop of spawn and what follows it: each pass returns
\* one of the particles in hits, or (if it can miss) goes on to the next pass
SpawnFrom(hits, canMiss, fallback, k) ==
    UNION {IF i = k \/ canMiss THEN hits ELSE {} : i \in k..59}
        \cup (IF k >= 60 \/ canMiss THEN fallback ELSE {})

\* the loop of spawn over the outcomes a pass can have: a pass that
\* returns nothing goes on to the next one
SpawnAmong(tries, fallback) ==
    UNION {SpawnFrom(UNION ts, {} \in ts, fb, 0) : ts \in {tries}, fb \in {fallback}}

\* spawn(): the particles it can return
Spawn(env) == SpawnAmong({SpawnTry(env, rx, ry) : rx \in Randoms, ry \in Randoms}, SpawnFallback(env))

\* a trail that is never cut
KeepTrail(trail, trailLen) == trail

\* keep the last trailLen entries: splice(0, length - trailLen)
TrimTrail(trail, trailLen) ==
    IF Len(trail) > trailLen THEN SubSeq(trail, (Len(trail) - trailLen) + 1, Len(trail)) ELSE trail

\* velocity * advectScale * dt * scale / 2^halvings
Displace(vel, env, dt, halvings) == RoundDiv(vel * env.advectScale.n * dt, env.advectScale.d * halvings)

\* a ?? b for the outcomes of sample
SampleOr(a, b) == IF a.ok THEN a ELSE b

\* wMid = sample(midX, midY) ?? w, the midpoint half a step along w
MidSample(env, p, dt, w) ==
    SampleOr(Sample(env, p.x + Displace(w.uu, env, dt, 2), p.y + Displace(w.vv, env, dt, 2)), w)

\* the particle moved to (x, y): its time to live, its speed and its trail
MovedTo(env, p, dt, x, y, speedMag) ==
    [x |-> x, y |-> y, ttl |-> p.ttl - dt, speedMag |-> speedMag,
     trailX |-> TrimTrail(Append(p.trailX, x), env.trailLen),
     trailY |-> TrimTrail(Append(p.trailY, y), env.trailLen)]

\* the particle moved a whole step along wMid
AdvectedBy(env, p, dt, wMid) ==
    MovedTo(env, p, dt, p.x + Displace(wMid.uu, env, dt, 1), p.y + Displace(wMid.vv, env, dt, 1),
            Hypot(wMid.uu, wMid.vv))

\* the particle after the integration step of tick, before the test of the box
Advected(env, p, dt) ==
    CHOOSE moved \in {AdvectedBy(env, p, dt, wMid) :
                      wMid \in {MidSample(env, p, dt, w) : w \in {Sample(env, p.x, p.y)}}} : TRUE

\* the body of the loop of tick without the respawn on a failed sample
TickParticleNoDataKept(env, p, dt) ==
    LET moved == Advected(env, p, dt)
    IN  IF p.ttl <= 0 THEN Spawn(env)
        ELSE IF OutsideBox(env, moved.x, moved.y) THEN Spawn(env)
        ELSE {moved}

\* the body of the loop of tick with a respawn where the sampled speed is zero
TickParticleStillRespawned(env, p, dt) ==
    LET moved == Advected(env, p, dt)
    IN  IF p.ttl <= 0 THEN Spawn(env)
        ELSE IF ~Sample(env, p.x, p.y).ok THEN Spawn(env)
        ELSE IF Hypot(Sample(env, p.x, p.y).uu, Sample(env, p.x, p.y).vv) = 0 THEN Spawn(env)
        ELSE IF OutsideBox(env, moved.x, moved.y) THEN Spawn(env)
        ELSE {moved}

\* the tests of the loop of tick around the step that gives moved: ttl <= 0,
\* no sample where the particle is, and a new position outside the box
TickMoved(env, p, moved) ==
    IF p.ttl <= 0 \/ ~Sample(env, p.x, p.y).ok \/ OutsideBox(env, moved.x, moved.y)
    THEN Spawn(env)
    ELSE {moved}

\* the body of the loop of tick for one particle: the particles that can
\* stand in its place afterwards
TickParticle(env, p, dt) == UNION {TickMoved(env, p, moved) : moved \in {Advected(env, p, dt)}}

\* dtRaw as it is, without the clamp
TickDtRaw(windLastTs, ts) == IF windLastTs # 0 THEN (ts - windLastTs) * 3 ELSE 50

\* dtRaw clamped: Math.max(0.001, Math.min(0.1, dtRaw)), timestamps in milliseconds
TickDt(windLastTs, ts) == Max(3, Min(300, IF windLastTs # 0 THEN (ts - windLastTs) * 3 ELSE 50))

\* ---- the wind layers

\* the u and v of a column, by pattern: steady flow east, flow north-east,
\* still air, no data, flow into a data gap and still air behind it, flow
\* across a data gap, flow east that dies out, flow west
WindPatterns ==
    {"east", "northeast", "still", "nodata", "gapstill", "gap", "dying", "west"}

WindU(pattern, i) ==
    CASE pattern = "east" -> Num(4)
      [] pattern = "northeast" -> Num(4)
      [] pattern = "still" -> Num(0)
      [] pattern = "nodata" -> NaN
      [] pattern = "gapstill" -> IF i = 1 THEN Num(4) ELSE IF i = 2 THEN NaN ELSE Num(0)
      [] pattern = "gap" -> IF i = 2 THEN NaN ELSE Num(4)
      [] pattern = "dying" -> IF i = 1 THEN Num(4) ELSE Num(0)
      [] pattern = "west" -> Num(0 - 4)

WindV(pattern, i) ==
    CASE pattern = "northeast" -> Num(3)
      [] pattern = "nodata" -> NaN
      [] OTHER -> Num(0)

\* an axis of n points 120 apart, ascending or descending
WindAxis(n, asc) == [k \in 1..n |-> IF asc THEN (k - 1) * 120 ELSE (n - k) * 120]

WindRows(pattern, nx, ny, asc, U) ==
    [j \in 1..ny |-> [i \in 1..nx |-> IF U THEN WindU(pattern, IF asc THEN i ELSE (nx + 1) - i)
                                            ELSE WindV(pattern, IF asc THEN i ELSE (nx + 1) - i)]]

\* the layers the application passes: speed 1, size 1.1
WindLayersOn ==
    {WindLayer(TRUE, WindAxis(nx, asc), WindAxis(ny, TRUE),
               WindRows(pattern, nx, ny, asc, TRUE), WindRows(pattern, nx, ny, asc, FALSE),
               Num(1), Num(110)) :
        pattern \in WindPatterns, nx \in 1..MaxWind, ny \in 1..2, asc \in BOOLEAN}

\* a layer that is switched off, one with no longitudes, one whose v has a row too few
WindLayersOff ==
    {WindLayer(FALSE, WindAxis(2, TRUE), WindAxis(1, TRUE), <<<<Num(4), Num(4)>>>>, <<<<Num(0), Num(0)>>>>, Num(1), Num(110)),
     WindLayer(TRUE, <<>>, WindAxis(1, TRUE), <<<<>>>>, <<<<>>>>, Num(1), Num(110)),
     WindLayer(TRUE, WindAxis(2, TRUE), WindAxis(2, TRUE),
               <<<<Num(4), Num(4)>>, <<Num(4), Num(4)>>>>, <<<<Num(0), Num(0)>>>>, Num(1), Num(110))}

WindLayers == WindLayersOn \cup WindLayersOff

\* the effect returned before it computed anything
NoWindEnv == [nx |-> 0, ny |-> 0]

NoWind == [ran |-> FALSE, running |-> FALSE]

\* ------------------------------------------------------------------------
\* The classified points (class view)
\* ------------------------------------------------------------------------
\* Values, centres, the interval and the half width are whole hundredths.
\* An unsigned 32-bit number is held as its two 16-bit halves.

MaxClassSide == 38

CLASS_MAX_XY_PLAYING == 70

CLASS_MAX_XY_PAUSED == 110

CLASS_MAX_Z_PLAYING == 24

CLASS_MAX_Z_PAUSED == 36

CLASS_POINTS_PER_CLASS_PLAYING == 700

CLASS_POINTS_PER_CLASS_PAUSED == 1400

\* sampleIndices(length, targetCount) when targetCount < length: the rounded
\* multiples of (length - 1) / (n - 1), without repeats, from 0 to length - 1
RECURSIVE SampleIndicesFrom(_, _, _, _)
SampleIndicesFrom(length, n, k, out) ==
    IF k >= n
    THEN LET first == IF out[1] # 0 THEN <<0>> \o out ELSE out
         IN  IF first[Len(first)] # length - 1 THEN Append(first, length - 1) ELSE first
    ELSE LET idx == RoundDiv(k * (length - 1), n - 1)
         IN  IF out # <<>> /\ out[Len(out)] = idx THEN SampleIndicesFrom(length, n, k + 1, out)
             ELSE SampleIndicesFrom(length, n, k + 1, Append(out, idx))

\* sampleIndices(length, targetCount), targetCount a whole number
SampleIndices(length, targetCount) ==
    IF length <= 0 THEN <<>>
    ELSE IF targetCount <= 0 \/ targetCount >= length THEN [k \in 1..length |-> k - 1]
    ELSE IF Max(2, Min(length, targetCount)) >= length THEN [k \in 1..length |-> k - 1]
    ELSE SampleIndicesFrom(length, Max(2, Min(length, targetCount)), 0, <<>>)

\* classCenters(cmin, cmax, step), at most 240 centres
RECURSIVE CentersFrom(_, _, _, _)
CentersFrom(value, max, step, out) ==
    IF value > max \/ Len(out) >= 240 THEN out
    ELSE CentersFrom(value + step, max, step, Append(out, value))

ClassCenters(cmin, cmax, step) ==
    IF step <= 0 THEN <<>>
    ELSE LET min == Min(cmin, cmax)
             max == Max(cmin, cmax)
             out == CentersFrom(min, max, step, <<>>)
         IN  IF out = <<>> THEN <<>>
             ELSE IF 4 * out[Len(out)] < (4 * max) - step /\ Len(out) < 240 THEN Append(out, max)
             ELSE out

\* Math.max(80, playing ? CLASS_POINTS_PER_CLASS_PLAYING : CLASS_POINTS_PER_CLASS_PAUSED)
PerClassCap(playing) ==
    Max(80, IF playing THEN CLASS_POINTS_PER_CLASS_PLAYING ELSE CLASS_POINTS_PER_CLASS_PAUSED)

U32(hi, lo) == [hi |-> hi, lo |-> lo]

\* (a + b) >>> 0
U32Add(a, b) == U32((a.hi + b.hi + ((a.lo + b.lo) \div 65536)) % 65536, (a.lo + b.lo) % 65536)

\* (a * k) >>> 0 for a small whole k
U32Times(a, k) == U32(((a.hi * k) + ((a.lo * k) \div 65536)) % 65536, (a.lo * k) % 65536)

\* (1664525 * r + 1013904223) >>> 0, 1664525 being 25 * 65536 + 26125
NextRand(r) ==
    LET low == 26125 * r.lo
        high == ((25 * r.lo) + ((26125 * r.hi) % 65536) + (low \div 65536)) % 65536
    IN  U32Add(U32(high, low % 65536), U32(15470, 62303))

\* ((safeTimeIdx + 1) * 2654435761 + (index + 1) * 2246822519) >>> 0
SeedRand(safeTimeIdx, index) ==
    U32Add(U32Times(U32(40503, 31153), safeTimeIdx + 1), U32Times(U32(34283, 51831), index + 1))

\* r % seen
U32Mod(r, seen) == (((r.hi % seen) * (65536 % seen)) + r.lo) % seen

Trace(value, index, safeTimeIdx) ==
    [value |-> value, x |-> <<>>, y |-> <<>>, z |-> <<>>, seen |-> 0, rand |-> SeedRand(safeTimeIdx, index)]

\* the test of the cap that lets the bucket grow to one more than the cap
UnderCapOrAt(length, perClassCap) == length <= perClassCap

\* bucketTrace.x.length < perClassCap
UnderCap(length, perClassCap) == length < perClassCap

\* the bucket takes the sample (lon, lat, depth): it is appended, or it
\* replaces the entry the bucket's generator picks, or it is dropped
Taken(trace, lon, lat, depth, perClassCap) ==
    IF UnderCap(Len(trace.x), perClassCap)
    THEN [trace EXCEPT !.seen = @ + 1, !.x = Append(@, lon), !.y = Append(@, lat), !.z = Append(@, depth)]
    ELSE LET rand == NextRand(trace.rand)
             replace == U32Mod(rand, trace.seen + 1)
         IN  IF replace < perClassCap
             THEN [trace EXCEPT !.seen = @ + 1, !.rand = rand,
                                !.x[replace + 1] = lon, !.y[replace + 1] = lat, !.z[replace + 1] = depth]
             ELSE [trace EXCEPT !.seen = @ + 1, !.rand = rand]

\* Math.round((value - minCenter) / step)
BucketOf(value, minCenter, step) == RoundDiv(value - minCenter, step)

\* the body of the innermost loop for one sample: the traces afterwards
Classified(traces, value, lon, lat, depth, c) ==
    IF ~IsFinite(depth) \/ ~IsFinite(lat) \/ ~IsFinite(lon) \/ ~IsFinite(value) THEN traces
    ELSE IF value.v < c.minCenter - c.half \/ value.v > c.maxCenter + c.half THEN traces
    ELSE LET bucket == BucketOf(value.v, c.minCenter, c.step)
         IN  IF bucket < 0 \/ bucket >= Len(traces) THEN traces
             ELSE IF Abs(value.v - traces[bucket + 1].value) > c.half THEN traces
             ELSE [traces EXCEPT ![bucket + 1] = Taken(@, lon.v, lat.v, depth.v, c.perClassCap)]

\* traces.filter((trace) => trace.x.length > 0).map(...)
Filtered(traces) ==
    LET kept == SelectSeq(traces, LAMBDA t : Len(t.x) > 0)
    IN  [k \in 1..Len(kept) |-> [value |-> kept[k].value, x |-> kept[k].x, y |-> kept[k].y, z |-> kept[k].z]]

\* ---- the inputs of the classification

ClassSettings(min, max, interval, halfWidth) ==
    [min |-> min, max |-> max, interval |-> interval, halfWidth |-> halfWidth]

\* what the pass is given: the volume full (nx, ny, nz and data, a pattern
\* over the offsets), the axes of meta, the class settings
ClassInput(playing, nx, ny, nz, pattern, latGap, settings, safeTimeIdx) ==
    [playing |-> playing, nx |-> nx, ny |-> ny, nz |-> nz, pattern |-> pattern, latGap |-> latGap,
     settings |-> settings, safeTimeIdx |-> safeTimeIdx]

\* Number(full.data[offset])
DataAt(in, offset) ==
    IF in.pattern = "same" THEN Num(0)
    ELSE CASE offset % 6 = 0 -> Num(0)
           [] offset % 6 = 1 -> Num(100)
           [] offset % 6 = 2 -> Num(30)
           [] offset % 6 = 3 -> NaN
           [] offset % 6 = 4 -> Num(50)
           [] offset % 6 = 5 -> Num(0 - 3)

\* Number(meta.lon[i]), Number(meta.lat[j]), Number(meta.z[k]): the index
\* stands for the coordinate, and lat[0] is not a number where the axis has a gap
MetaLon(in, i) == Num(i)

MetaLat(in, j) == IF in.latGap /\ j = 0 THEN NaN ELSE Num(j)

MetaZ(in, k) == Num(k)

\* what the pass computes before its loops
ClassConsts(in) ==
    [xIdx |-> SampleIndices(in.nx, IF in.playing THEN CLASS_MAX_XY_PLAYING ELSE CLASS_MAX_XY_PAUSED),
     yIdx |-> SampleIndices(in.ny, IF in.playing THEN CLASS_MAX_XY_PLAYING ELSE CLASS_MAX_XY_PAUSED),
     zIdx |-> SampleIndices(in.nz, IF in.playing THEN CLASS_MAX_Z_PLAYING ELSE CLASS_MAX_Z_PAUSED),
     centers |-> ClassCenters(Min(in.settings.min, in.settings.max), Max(in.settings.min, in.settings.max),
                              in.settings.interval),
     perClassCap |-> PerClassCap(in.playing),
     step |-> in.settings.interval,
     half |-> Max(5, in.settings.halfWidth),
     minCenter |-> Min(in.settings.min, in.settings.max),
     maxCenter |-> Max(in.settings.min, in.settings.max)]

ClassShapes == {<<2, 2, 2>>, <<71, 1, 1>>, <<27, 27, 1>>, <<MaxClassSide, MaxClassSide, 1>>}

\* the settings are those the selects of the application offer (intervals 0.5, 1, 2; half widths 0.05, 0.3)
ClassInputs ==
    {ClassInput(playing, shape[1], shape[2], shape[3], pattern, FALSE, ClassSettings(0, 100, 100, halfWidth), 0) :
        playing \in BOOLEAN, shape \in ClassShapes, pattern \in {"same", "mixed"}, halfWidth \in {5, 30}}
    \cup {ClassInput(playing, 2, 2, 2, "mixed", latGap, ClassSettings(100, 0, interval, 30), 1) :
        playing \in BOOLEAN, latGap \in BOOLEAN, interval \in {50, 100, 200}}

NoClasses == [on |-> FALSE]

\* ------------------------------------------------------------------------
\* The horizontal colour cache and the transect curtain cache
\* ------------------------------------------------------------------------
\* An image path is the number of its frame; a decoded image is its width,
\* its height and its pixels row by row. Colour values are whole thousandths.

MaxPaths == 26

Pixel(r, g, b, a) == [r |-> r, g |-> g, b |-> b, a |-> a]

\* what loadImageData resolves to for a path: two frames that alternate,
\* each of four pixels, one of them transparent
ImageOf(path) ==
    LET blue == Pixel(49, 54, 149, 255)
        red == Pixel(165, 0, 38, 255)
        green == Pixel(0, 200, 0, 255)
        clear == Pixel(0, 0, 0, 0)
    IN  [path |-> path, width |-> 2, height |-> 2,
         data |-> IF path % 2 = 1 THEN <<blue, red, green, clear>> ELSE <<red, green, clear, blue>>]

NoImage == [path |-> 0, width |-> 0, height |-> 0, data |-> <<>>]

\* Math.round(n / d) for a whole n and a whole d that is not zero
RoundRatio(n, d) == IF d > 0 THEN RoundDiv(n, d) ELSE RoundDiv(0 - n, 0 - d)

\* getPixelRGBA(img, x, y) for x = xn / xd and y = yn / yd
GetPixelRGBA(img, xn, xd, yn, yd) ==
    LET ix == Max(0, Min(img.width - 1, RoundRatio(xn, xd)))
        iy == Max(0, Min(img.height - 1, RoundRatio(yn, yd)))
    IN  img.data[(iy * img.width) + ix + 1]

\* rgbToIndex332(r, g, b): (r >> 5) << 5 | (g >> 5) << 2 | b >> 6
RgbToIndex332(r, g, b) == ((r \div 32) * 32) + ((g \div 32) * 4) + (b \div 64)

\* rdylbu_r_256(): the palette of 256 colours over the eleven stops
RdylbuStops ==
    <<HexStop(TRUE, <<3, 1, 3, 6, 9, 5>>), HexStop(TRUE, <<4, 5, 7, 5, 11, 4>>),
      HexStop(TRUE, <<7, 4, 10, 13, 13, 1>>), HexStop(TRUE, <<10, 11, 13, 9, 14, 9>>),
      HexStop(TRUE, <<14, 0, 15, 3, 15, 8>>), HexStop(TRUE, <<15, 15, 15, 15, 11, 15>>),
      HexStop(TRUE, <<15, 14, 14, 0, 9, 0>>), HexStop(TRUE, <<15, 13, 10, 14, 6, 1>>),
      HexStop(TRUE, <<15, 4, 6, 13, 4, 3>>), HexStop(TRUE, <<13, 7, 3, 0, 2, 7>>),
      HexStop(TRUE, <<10, 5, 0, 0, 2, 6>>)>>

RdylbuPalette == MakeLinearPalette(RdylbuStops, 256).out

\* the palette index the loop of buildSstLookup ends with for the colour c:
\* d < bestD replaces the index, so it is the first one at the least
\* distance |dr| + |dg| + |db|
FirstLeast(dist, least) ==
    CHOOSE k \in DOMAIN dist : dist[k] = least /\ \A m \in 0..(k - 1) : dist[m] # least

Least(dist) == CHOOSE d \in {dist[k] : k \in DOMAIN dist} : \A k \in DOMAIN dist : d <= dist[k]

NearestOf(dist) == FirstLeast(dist, Least(dist))

NearestPalette(palette, c) ==
    NearestOf([k \in 0..(palette.len - 1) |->
                  Abs(c.r - palette.at[k].r) + Abs(c.g - palette.at[k].g) + Abs(c.b - palette.at[k].b)])

\* buildSstLookup(img, vmin, vmax).keyToValue at the colour c of an opaque
\* pixel of img: vmin + t * (vmax - vmin) with t = bestIdx / denom
SstValue(palette, c, vmin, vmax) ==
    (vmin * 1000) + RoundDiv(NearestPalette(palette, c) * (vmax - vmin) * 1000, Max(1, palette.len - 1))

NoRange == [present |-> FALSE, min |-> 0, max |-> 0]

ValueRange(min, max) == [present |-> TRUE, min |-> min, max |-> max]

\* props.horizontalOverlay: colormap is "undefined" or "rdylbu_r"
HorizontalOverlay(enabled, imagePath, bounds, colormap, valueRange, flipLon, flipLat) ==
    [enabled |-> enabled, imagePath |-> imagePath, bounds |-> bounds, colormap |-> colormap,
     valueRange |-> valueRange, flipLon |-> flipLon, flipLat |-> flipLat]

\* the key of the horizontal colour cache: the parts of
\* `${imagePath}|${modeKey}|${flipKey}|${rangeKey}`
HorizontalKey(overlay) ==
    <<overlay.imagePath,
      IF overlay.colormap = "undefined" THEN "rgb332" ELSE overlay.colormap,
      <<IF overlay.flipLon THEN 1 ELSE 0, IF overlay.flipLat THEN 1 ELSE 0>>,
      IF overlay.colormap # "undefined" /\ overlay.valueRange.present
      THEN <<overlay.valueRange.min, overlay.valueRange.max>> ELSE <<>>>>

\* a cache is the sequence of its entries in the order of insertion
CacheHas(cache, key) == \E k \in 1..Len(cache) : cache[k].key = key

CacheGet(cache, key) == cache[CHOOSE k \in 1..Len(cache) : cache[k].key = key].value

\* Map.set: a new key goes last, a key that is there keeps its place
CacheSet(cache, key, value) ==
    IF CacheHas(cache, key)
    THEN [k \in 1..Len(cache) |-> IF cache[k].key = key THEN [key |-> key, value |-> value] ELSE cache[k]]
    ELSE Append(cache, [key |-> key, value |-> value])

\* if (cache.size > capacity) delete the first key
Evicted(cache, capacity) == IF Len(cache) > capacity THEN Tail(cache) ELSE cache

NoColor == [isNull |-> TRUE]

\* the body of the horizontalColor memo after its cache lookup: null, or the
\* surfacecolor over the bathymetry axes with its colour scale and range
ComputeHorizontalColor(overlay, img, axes) ==
    LET lonSpan == overlay.bounds.lonMax - overlay.bounds.lonMin
        latSpan == overlay.bounds.latMax - overlay.bounds.latMin
        vmin == IF overlay.valueRange.present THEN overlay.valueRange.min ELSE 0 - 1
        vmax == IF overlay.valueRange.present THEN overlay.valueRange.max ELSE 8
        sst == overlay.colormap = "rdylbu_r"
        Cell(j, i) ==
            LET vRaw == overlay.bounds.latMax - axes.lat[j]
                v == IF overlay.flipLat THEN latSpan - vRaw ELSE vRaw
                uRaw == axes.lon[i] - overlay.bounds.lonMin
                u == IF overlay.flipLon THEN lonSpan - uRaw ELSE uRaw
                px == GetPixelRGBA(img, u * (img.width - 1), lonSpan, v * (img.height - 1), latSpan)
            IN  IF px.a < 10 THEN NaN
                ELSE IF sst THEN Num(SstValue(RdylbuPalette, px, vmin, vmax))
                ELSE Num(RgbToIndex332(px.r, px.g, px.b) * 1000)
    IN  IF lonSpan = 0 \/ latSpan = 0 THEN NoColor
        ELSE [isNull |-> FALSE,
              surfacecolor |-> [j \in 1..Len(axes.lat) |-> [i \in 1..Len(axes.lon) |-> Cell(j, i)]],
              colorscale |-> IF sst THEN "rdylbu" ELSE "rgb332",
              cmin |-> IF sst THEN vmin * 1000 ELSE 0,
              cmax |-> IF sst THEN vmax * 1000 ELSE 255000]

\* the horizontalColor memo: its value and the cache it leaves
HorizontalColorMemo(overlay, img, axes, cache) ==
    IF ~overlay.enabled \/ img = NoImage THEN [value |-> NoColor, cache |-> cache]
    ELSE IF CacheHas(cache, HorizontalKey(overlay))
    THEN [value |-> CacheGet(cache, HorizontalKey(overlay)), cache |-> cache]
    ELSE LET result == ComputeHorizontalColor(overlay, img, axes)
         IN  IF result.isNull THEN [value |-> NoColor, cache |-> cache]
             ELSE [value |-> result, cache |-> CacheSet(cache, HorizontalKey(overlay), result)]

LonDepthBounds(lonMin, lonMax, depthMin, depthMax) ==
    [lonMin |-> lonMin, lonMax |-> lonMax, depthMin |-> depthMin, depthMax |-> depthMax]

\* props.transectOverlay
TransectOverlay(enabled, imagePath, lat, bounds) ==
    [enabled |-> enabled, imagePath |-> imagePath, lat |-> lat, bounds |-> bounds]

\* the key of the transect curtain cache: the parts of
\* `${imagePath}|${lat}|${lonMin}|${lonMax}|${depthMin}|${depthMax}`
TransectKey(overlay) ==
    <<overlay.imagePath, overlay.lat, overlay.bounds.lonMin, overlay.bounds.lonMax,
      overlay.bounds.depthMin, overlay.bounds.depthMax>>

\* bathy.lon.filter(x => x >= min(lonMin, lonMax) && x <= max(lonMin, lonMax))
LonWithin(lon, bounds) ==
    SelectSeq(lon, LAMBDA x : x >= Min(bounds.lonMin, bounds.lonMax) /\ x <= Max(bounds.lonMin, bounds.lonMax))

NoCurtain == [isNull |-> TRUE]

\* the body of the transectCurtain memo after its cache lookup: null, or the
\* curtain x, y, z and surfacecolor; depths are whole hundredths of a metre
ComputeTransectCurtain(overlay, img, axes) ==
    LET lonSpan == overlay.bounds.lonMax - overlay.bounds.lonMin
        depthSpan == overlay.bounds.depthMax - overlay.bounds.depthMin
        x == LonWithin(axes.lon, overlay.bounds)
        n == Max(40, Min(220, img.height))
        depth == [k \in 1..n |-> (overlay.bounds.depthMin * 100) + RoundRatio((k - 1) * depthSpan * 100, n - 1)]
        Colour(j, i) ==
            LET px == GetPixelRGBA(img, (x[i] - overlay.bounds.lonMin) * (img.width - 1), lonSpan,
                                   (j - 1) * (img.height - 1), n - 1)
            IN  IF px.a < 10 THEN 0 ELSE RgbToIndex332(px.r, px.g, px.b)
    IN  IF lonSpan = 0 \/ depthSpan = 0 THEN NoCurtain
        ELSE [isNull |-> FALSE,
              x |-> x,
              y |-> [k \in 1..n |-> overlay.lat],
              z |-> [j \in 1..n |-> [i \in 1..Len(x) |-> 0 - depth[j]]],
              surfacecolor |-> [j \in 1..n |-> [i \in 1..Len(x) |-> Colour(j, i)]]]

\* the transectCurtain memo: its value and the cache it leaves
TransectCurtainMemo(overlay, img, axes, cache) ==
    IF ~overlay.enabled \/ img = NoImage THEN [value |-> NoCurtain, cache |-> cache]
    ELSE IF CacheHas(cache, TransectKey(overlay))
    THEN [value |-> CacheGet(cache, TransectKey(overlay)), cache |-> cache]
    ELSE LET result == ComputeTransectCurtain(overlay, img, axes)
         IN  IF result.isNull THEN [value |-> NoCurtain, cache |-> cache]
             ELSE [value |-> result, cache |-> CacheSet(cache, TransectKey(overlay), result)]

\* ---- the inputs of the colour caches

LonLatBounds(lonMin, lonMax, latMin, latMax) ==
    [lonMin |-> lonMin, lonMax |-> lonMax, latMin |-> latMin, latMax |-> latMax]

\* two boxes of different width and one of no width
HorizontalBounds == {LonLatBounds(0, 10, 0, 10), LonLatBounds(0, 20, 0, 10), LonLatBounds(5, 5, 0, 10)}

\* the axes of makeSyntheticGreenlandSeaBathy() and of a bathymetry file
SyntheticAxes == [lon |-> <<0, 10>>, lat |-> <<0, 10>>]

FileAxes == [lon |-> <<0, 5, 10>>, lat |-> <<0, 10>>]

\* props.horizontalOverlay undefined
NoOverlay == HorizontalOverlay(FALSE, 0, LonLatBounds(0, 0, 0, 0), "undefined", NoRange, FALSE, FALSE)

\* the overlays a parent can switch on, at the first frame
HorizontalOverlays ==
    {HorizontalOverlay(TRUE, 1, LonLatBounds(0, 10, 0, 10), "undefined", NoRange, flipLon, FALSE) :
        flipLon \in BOOLEAN}
    \cup {HorizontalOverlay(TRUE, 1, LonLatBounds(0, 10, 0, 10), "rdylbu_r", range, FALSE, FALSE) :
        range \in {NoRange, ValueRange(0, 10)}}

\* props.transectOverlay undefined
NoTransect == TransectOverlay(FALSE, 0, 0, LonDepthBounds(0, 0, 0, 0))

\* the transects a parent can switch on, at the first frame
TransectOverlays ==
    {TransectOverlay(TRUE, 1, 75, b) : b \in {LonDepthBounds(0, 10, 0, 390), LonDepthBounds(10, 0, 0, 780)}}

TransectLats == {75, 78}

NoCache ==
    [horizontalOverlay |-> NoOverlay, horizontalImg |-> NoImage, horizontalLoad |-> 0,
     horizontalImgStatus |-> "off", horizontalColorCache |-> <<>>, horizontalColor |-> NoColor,
     transectOverlay |-> NoTransect, transectImg |-> NoImage, transectLoad |-> 0,
     transectImgStatus |-> "off", transectCurtainCache |-> <<>>, transectCurtain |-> NoCurtain,
     axes |-> SyntheticAxes]

\* ------------------------------------------------------------------------
\* The animation loop of the wind effect
\* ------------------------------------------------------------------------
\* Frame timestamps are whole milliseconds. A callback waiting in the
\* browser is [id, gen]: the handle requestAnimationFrame returned and the
\* run of the effect whose closure it is.

MaxFrames == 8

MaxLoops == 2

\* a loop that redraws on every frame
DrawAlways(windLastDrawTs, ts) == TRUE

\* ts - windLastDrawTsRef.current >= 36
DrawDue(windLastDrawTs, ts) == ts - windLastDrawTs >= 36

\* a cancellation that leaves the callback waiting
CancelNothing(queue, handle) == queue

\* window.cancelAnimationFrame(handle)
CancelAnimationFrame(queue, handle) == {cb \in queue : cb.id # handle}

\* window.requestAnimationFrame(tick) by the closure of run gen; id is the handle it returns
RequestAnimationFrame(queue, id, gen) == queue \cup {[id |-> id, gen |-> gen]}

\* the reset at the head of the effect and in its cleanup: the pending
\* callback is cancelled, the pool emptied, both timestamps set to 0
LoopReset(l) ==
    [l EXCEPT !.queue = IF l.windAnimRaf # 0 THEN CancelAnimationFrame(l.queue, l.windAnimRaf) ELSE l.queue,
              !.windAnimRaf = 0, !.particles = <<>>, !.windLastTs = 0, !.windLastDrawTs = 0]

\* the effect after its reset, for a layer that passes the early returns
\* and the particle p that spawn() returned: the pool, and the first request
LoopStarted(l, layer, warp, p) ==
    [l EXCEPT !.layer = layer, !.warp = warp, !.env = WindEnv(layer), !.running = TRUE,
              !.gen = l.gen + 1, !.particles = <<p>>, !.pushed = <<>>, !.advected = 0, !.frames = 0, !.lastTickOf = 0,
              !.queue = RequestAnimationFrame(l.queue, l.nextId, l.gen + 1),
              !.windAnimRaf = l.nextId, !.nextId = l.nextId + 1]

\* the effect after its reset, for a layer that makes it return early
LoopNotStarted(l, layer, warp) ==
    [l EXCEPT !.layer = layer, !.warp = warp, !.env = NoWindEnv, !.running = FALSE,
              !.gen = l.gen + 1, !.pushed = <<>>, !.advected = 0, !.frames = 0, !.lastTickOf = 0]

\* the browser takes the callback cb off its list and calls it with the timestamp ts
CallbackTaken(l, cb, ts) == [l EXCEPT !.queue = l.queue \ {cb}, !.now = ts, !.lastTickOf = cb.gen]

\* the head and the loop of tick(ts) in the closure of the current run: p is
\* the particle that stands in the pool afterwards
TickAdvected(l, ts, p) ==
    [l EXCEPT !.windLastTs = ts, !.particles = <<p>>, !.frames = l.frames + 1, !.advected = l.advected + 1]

\* the end of tick(ts) in the closure of run gen: the redraw if it is due, and the next request
TickEnd(l, ts, gen) ==
    [l EXCEPT !.windLastDrawTs = IF DrawDue(l.windLastDrawTs, ts) THEN ts ELSE l.windLastDrawTs,
              !.pushed = IF DrawDue(l.windLastDrawTs, ts) THEN Append(l.pushed, ts) ELSE l.pushed,
              !.queue = RequestAnimationFrame(l.queue, l.nextId, gen),
              !.windAnimRaf = l.nextId, !.nextId = l.nextId + 1]

\* the frame rates: the intervals between two frames, in milliseconds
FrameIntervals == {16, 40}

\* the layers the loop is followed for: flow east drawn with short trails, and still air
LoopLayers ==
    {WindLayer(TRUE, WindAxis(3, TRUE), WindAxis(1, TRUE),
               WindRows("east", 3, 1, TRUE, TRUE), WindRows("east", 3, 1, TRUE, FALSE), Num(1), Num(60)),
     WindLayer(FALSE, WindAxis(2, TRUE), WindAxis(1, TRUE), <<<<Num(4), Num(4)>>>>, <<<<Num(0), Num(0)>>>>, Num(1), Num(110))}

DepthWarps == {"linear", "upper"}

NoLoop ==
    [mounted |-> FALSE, layer |-> <<>>, warp |-> "linear", running |-> FALSE, env |-> NoWindEnv,
     particles |-> <<>>, windLastTs |-> 0, windLastDrawTs |-> 0, windAnimRaf |-> 0,
     queue |-> {}, gen |-> 0, nextId |-> 1, now |-> 0, pushed |-> <<>>, advected |-> 0, frames |-> 0,
     lastTickOf |-> 0]

\* ------------------------------------------------------------------------
\* The trace list (data)
\* ------------------------------------------------------------------------
\* A trace is [name, n, src]: its name without the number in it, the number
\* (the bin of a wind trace, idx + 1 of a plane, the position of a class;
\* 0 where there is none) and the position in its prop of the object it
\* was made from. The curtain of the transect image has no name.

MaxPlanes == 2

Emitted(name, n, src) == [name |-> name, n |-> n, src |-> src]

\* a prop that is an object with enabled and mode, or is not given
LayerProp(given, enabled, mode) == [given |-> given, enabled |-> enabled, mode |-> mode]

\* props.horizontalField?.enabled ? props.horizontalField : null
NumericH(props) == props.horizontalField.given /\ props.horizontalField.enabled

\* Boolean(props.horizontalOverlay?.enabled && horizontalColor)
PngOverlayEnabled(props) ==
    props.horizontalOverlay.given /\ props.horizontalOverlay.enabled /\ props.horizontalColor

OverlayEnabled(props) == NumericH(props) \/ PngOverlayEnabled(props)

\* numericH?.mode ?? props.horizontalOverlay?.mode ?? "surface"
OverlayMode(props) ==
    IF NumericH(props) /\ props.horizontalField.mode # "undefined" THEN props.horizontalField.mode
    ELSE IF props.horizontalOverlay.given /\ props.horizontalOverlay.mode # "undefined"
         THEN props.horizontalOverlay.mode
    ELSE "surface"

TextureOnBathy(props) == OverlayEnabled(props) /\ OverlayMode(props) = "bathy"

\* the list with the transect put in front of it
TransectFirst(traces, props) ==
    IF props.transectField THEN <<Emitted("Transect", 0, 0)>> \o traces
    ELSE IF props.transectOverlay /\ props.transectCurtain THEN <<Emitted("", 0, 0)>> \o traces
    ELSE traces

\* the bathymetry: textured, or the ocean and the land of a file, or the one surface
WithBathy(traces, props) ==
    IF props.showBathy # "false" /\ TextureOnBathy(props)
    THEN Append(traces, Emitted("Bathy (textured)", 0, 0))
    ELSE IF props.showBathy # "false"
    THEN IF props.zRawFits
         THEN IF props.landMax > 0
              THEN traces \o <<Emitted("Ocean bathymetry", 0, 0), Emitted("Land (sea-level cap)", 0, 0)>>
              ELSE Append(traces, Emitted("Ocean bathymetry", 0, 0))
         ELSE Append(traces, Emitted("Bathy", 0, 0))
    ELSE traces

\* the overlay on its own plane
WithOverlaySurface(traces, props) ==
    IF OverlayEnabled(props) /\ OverlayMode(props) = "surface"
    THEN Append(traces, Emitted("Overlay (surface)", 0, 0))
    ELSE traces

\* (props.horizontalPlanes ?? []).filter((p) => p?.enabled), as positions in the prop
EnabledPlanes(props) == SelectSeq([k \in 1..Len(props.horizontalPlanes) |-> k], LAMBDA k : props.horizontalPlanes[k])

\* the loop over the enabled planes
WithPlanes(traces, props) ==
    traces \o [idx \in 1..Len(EnabledPlanes(props)) |-> Emitted("Plane", idx, EnabledPlanes(props)[idx])]

\* the traces of the wind particles, one per bin
WithWind(traces, props) ==
    IF props.windLayer THEN traces \o [b \in 1..6 |-> Emitted("Wind particles", b - 1, 0)] ELSE traces

\* the traces of class idx of the class layer: none for arrays that do not
\* fit, else the legend entry (if asked for) and the points
ClassTraces(classLayer, idx) ==
    IF ~classLayer.points[idx].fits THEN <<>>
    ELSE IF classLayer.showLegend
    THEN <<Emitted("class legend", idx, idx), Emitted("class", idx, idx)>>
    ELSE <<Emitted("class", idx, idx)>>

RECURSIVE ClassLoop(_, _, _)
ClassLoop(traces, classLayer, idx) ==
    IF idx > Len(classLayer.points) THEN traces
    ELSE ClassLoop(traces \o ClassTraces(classLayer, idx), classLayer, idx + 1)

\* the class layer: the colour bar if there is a finite value, then the loop over the classes
WithClasses(traces, props) ==
    IF ~props.classLayer.enabled THEN traces
    ELSE IF props.classLayer.showScale /\ \E k \in DOMAIN props.classLayer.points : props.classLayer.points[k].finite
    THEN ClassLoop(Append(traces, Emitted("Class colorbar", 0, 0)), props.classLayer, 1)
    ELSE ClassLoop(traces, props.classLayer, 1)

\* the transect: the field, else the curtain of the image
WithTransect(traces, props) ==
    IF props.transectField THEN Append(traces, Emitted("Transect", 0, 0))
    ELSE IF props.transectOverlay /\ props.transectCurtain THEN Append(traces, Emitted("", 0, 0))
    ELSE traces

\* the memo data: the trace list for the props
Data(props) ==
    WithTransect(WithClasses(WithWind(WithPlanes(WithOverlaySurface(WithBathy(<<>>, props), props), props), props), props), props)

\* ---- the props of a render

NoLayerProp == LayerProp(FALSE, FALSE, "undefined")

HorizontalFieldProps ==
    {NoLayerProp, LayerProp(TRUE, FALSE, "bathy")} \cup {LayerProp(TRUE, TRUE, mode) : mode \in {"undefined", "surface", "bathy"}}

HorizontalOverlayProps ==
    {NoLayerProp} \cup {LayerProp(TRUE, TRUE, mode) : mode \in {"undefined", "bathy"}}

\* a class of the class layer: whether its arrays fit, whether its value is finite
ClassPoint(fits, finite) == [fits |-> fits, finite |-> finite]

ClassLayerProp(enabled, points, showScale, showLegend) ==
    [enabled |-> enabled, points |-> points, showScale |-> showScale, showLegend |-> showLegend]

ClassLayerProps ==
    {ClassLayerProp(FALSE, <<>>, FALSE, FALSE),
     ClassLayerProp(TRUE, <<>>, TRUE, TRUE),
     ClassLayerProp(TRUE, <<ClassPoint(TRUE, TRUE), ClassPoint(FALSE, TRUE), ClassPoint(TRUE, FALSE)>>, TRUE, TRUE),
     ClassLayerProp(TRUE, <<ClassPoint(TRUE, FALSE), ClassPoint(TRUE, TRUE)>>, FALSE, FALSE)}

PlaneLists == UNION {[1..n -> BOOLEAN] : n \in 0..MaxPlanes}

\* the props and the memos the trace list is computed from
DataProps ==
    [showBathy : {"undefined", "false"},
     horizontalField : HorizontalFieldProps,
     horizontalOverlay : HorizontalOverlayProps,
     horizontalColor : BOOLEAN,
     zRawFits : BOOLEAN,
     landMax : {0, 5},
     horizontalPlanes : PlaneLists,
     windLayer : BOOLEAN,
     classLayer : ClassLayerProps,
     transectField : BOOLEAN,
     transectOverlay : BOOLEAN,
     transectCurtain : BOOLEAN]

NoScene == [made |-> FALSE]

\* ------------------------------------------------------------------------
\* The curtain of the transect field
\* ------------------------------------------------------------------------
\* Depths and seafloors are whole hundredths of a metre, so that
\* bottom >= -1e-6 is bottom >= 0 and depth < bottom - 1e-6 is depth < bottom.

MaxCurtainRows == 3

\* props.transectField: lon an array of positions, lat and the entries of z
\* and of the rows of values JS values
TransectFieldProp(lon, lat, z, values) == [lon |-> lon, lat |-> lat, z |-> z, values |-> values]

\* the search for the entry of axis nearest to x: it starts from entry 0
\* and moves on to a later entry only if that one is strictly nearer
NearestEntry(axis, x) == IF axis.len = 0 THEN 0 ELSE NearestFrom(axis, x, 1, 0, Abs(axis.at[0] - x))

\* bathyLatIdx: row 0 unless there are several rows and the latitude is finite
BathyLatIdx(b, latTarget) ==
    IF b.lat.len > 1 /\ IsFinite(latTarget) THEN NearestEntry(b.lat, latTarget.v) ELSE 0

\* a seafloor taken from row 0 of the bathymetry whatever the latitude
BottomOfFirstRow(b, t, i) == ToNumber(At(b.z.at[0], NearestEntry(b.lon, t.lon.at[i])))

\* bottomByLon[i]: Number(bathy.z[bathyLatIdx]?.[bathyLonIdx[i]])
BottomByLon(b, t, i) ==
    IF BathyLatIdx(b, ToNumber(t.lat)) < b.z.len
    THEN ToNumber(At(b.z.at[BathyLatIdx(b, ToNumber(t.lat))], NearestEntry(b.lon, t.lon.at[i])))
    ELSE NaN

\* the tests of a cell of valuesMasked on the value n, the depth of its row and the seafloor of its column
CurtainMasked(n, depth, bottom) ==
    IF ~IsFinite(n) THEN NaN
    ELSE IF IsFinite(bottom) /\ bottom.v >= 0 THEN NaN
    ELSE IF IsFinite(bottom) /\ IsFinite(depth) /\ depth.v < bottom.v THEN NaN
    ELSE n

\* valuesMasked of the transect
CurtainValues(t, b) ==
    Arr(t.values.len, [j \in 0..(t.values.len - 1) |->
        Arr(t.values.at[j].len, [i \in 0..(t.values.at[j].len - 1) |->
            CurtainMasked(ToNumber(t.values.at[j].at[i]), ToNumber(At(t.z, j)), BottomByLon(b, t, i))])])

\* Number.isFinite(valuesMasked[j]?.[i])
CurtainCellFinite(valuesMasked, j, i) ==
    j < valuesMasked.len /\ i < valuesMasked.at[j].len /\ IsFinite(valuesMasked.at[j].at[i])

\* zCurtain: the scaled depth of the row where the masked value is finite
ZCurtain(t, w, valuesMasked) ==
    Arr(t.z.len, [j \in 0..(t.z.len - 1) |->
        Arr(t.lon.len, [i \in 0..(t.lon.len - 1) |->
            IF CurtainCellFinite(valuesMasked, j, i) THEN ScaleZ(w, t.z.at[j]) ELSE NaN])])

\* the trace "Transect": x, y, z and surfacecolor
TransectTrace(t, b, w) ==
    [x |-> t.lon, y |-> Arr(t.z.len, [j \in 0..(t.z.len - 1) |-> t.lat]),
     z |-> ZCurtain(t, w, CurtainValues(t, b)), surfacecolor |-> CurtainValues(t, b)]

\* ---- the inputs of the curtain

CurtainLon == Arr(2, [i \in 0..1 |-> 10 * i])

CurtainLat == Arr(2, [j \in 0..1 |-> 60 + (2 * j)])

\* seafloors: deep ocean, a shelf, the shore, land, no value
CurtainBottoms == {Num(0 - 200000), Num(0 - 10000), Num(0), NaN}

CurtainBathys ==
    {Bathy(CurtainLon, CurtainLat, Arr(2, [j \in 0..1 |-> Arr(2, [i \in 0..1 |-> zs[j][i]])]), FALSE, EmptyArr) :
        zs \in [0..1 -> [0..1 -> CurtainBottoms]]}

\* the depths of the rows: 50 m, 450 m and 2950 m down
CurtainDepths == Arr(MaxCurtainRows, [j \in 0..(MaxCurtainRows - 1) |-> Num((0 - 5000) * (1 + (j * j * j * 7) + j))])

CurtainRow(a, c) == Arr(2, [i \in 0..1 |-> IF i = 0 THEN a ELSE c])

CurtainValueRows ==
    {[j \in 0..(MaxCurtainRows - 1) |-> CurtainRow(Num(7), Num(7))],
     [j \in 0..(MaxCurtainRows - 1) |-> IF j = 0 THEN CurtainRow(NaN, Num(0)) ELSE CurtainRow(Num(3), Num(7))]}

TransectFieldProps ==
    {TransectFieldProp(lon, lat, CurtainDepths, Arr(MaxCurtainRows, rows)) :
        lon \in {CurtainLon, Arr(2, [i \in 0..1 |-> 4 + (2 * i)])},
        lat \in {Num(60), Num(61), Num(62), NaN},
        rows \in CurtainValueRows}

CurtainWarps == {DepthWarp(WarpProp(mode, JUndefined, JUndefined)) : mode \in {"linear", "upper"}}

NoTransectTrace == [made |-> FALSE]

\* ------------------------------------------------------------------------
\* Playback (App): the timer that steps the time index
\* ------------------------------------------------------------------------
\* The interval of the timer is left out: a timer that is set may fire at
\* any moment. An update made outside an event handler (by a promise or an
\* effect) is committed first, and the effects that depend on it run in a
\* later task; an update made by a click is committed and its effects run
\* before the handler returns.

\* the largest number of time steps of the store
MaxSteps == 3

\* safeTimeIdx
SafeTimeIdx(timeIdx, n) == Max(0, Min(timeIdx, Max(0, n - 1)))

NoTimer == [on |-> FALSE, sliceStatus |-> "off", showSeaIce |-> FALSE, seaIceStatus |-> "off", n |-> 0]

\* the playback effect: no timer unless playing with the metadata ready and
\* a time step to show, else a timer whose callback holds the values of
\* this render (the sea ice ones only where the callback reads them)
PlaybackTimer(p) ==
    IF ~p.playing THEN NoTimer
    ELSE IF p.metaStatus # "ready" \/ p.n = 0 THEN NoTimer
    ELSE [on |-> TRUE, sliceStatus |-> p.sliceStatus,
          showSeaIce |-> p.seaIceGated /\ p.showSeaIce,
          seaIceStatus |-> IF p.seaIceGated THEN p.seaIceStatus ELSE "off",
          n |-> p.n]

\* the callback of the timer t, applied to the time index i
TimerCallback(t, i) ==
    IF t.sliceStatus = "loading" THEN i
    ELSE IF t.showSeaIce /\ t.seaIceStatus = "loading" THEN i
    ELSE (i + 1) % t.n

\* the cleanup of the playback effect and its next run, on the state p
PlaybackEffectRun(p) == [p EXCEPT !.timer = PlaybackTimer(p), !.stale = FALSE]

\* the state after a committed update whose effects have not run yet: the
\* timer that is set is stale where the effect would set another one
Committed(p) == [p EXCEPT !.stale = (PlaybackTimer(p) # p.timer)]

\* the application before it is mounted
NoPlay ==
    [mounted |-> FALSE, seaIceGated |-> FALSE, metaStatus |-> "loading", n |-> 0, playing |-> FALSE,
     sliceStatus |-> "off", showSeaIce |-> TRUE, seaIceStatus |-> "off", timeIdx |-> 0,
     timer |-> NoTimer, stale |-> FALSE, tick |-> FALSE]

\* ------------------------------------------------------------------------
\* State
\* ------------------------------------------------------------------------

VARIABLES
    bathyJson,      \* the bathymetry file the server holds
    called,         \* tryLoadBathyJson has returned
    grid,           \* what it returned
    depthWarpProp,  \* props.depthWarp
    warpZ,          \* the last argument of scaleZ
    warpOut,        \* and its result
    hField,         \* props.horizontalField
    bathyAxes,      \* bathy.lon and bathy.lat
    horizontalColor, \* the PNG colour grid
    overlayOut,     \* the last overlaySurfacecolor
    ui,             \* the React state the loading effects write
    runs,           \* per effect, how many times its body ran past the guard
    loads,          \* the loads in flight, each with its closure's cancelled flag
    lastDone,       \* the load whose completion was handled last
    mask,           \* the surface plane, its inputs and its valuesMasked
    pal,            \* the last makeLinearPalette call and what it returned
    wind,           \* the wind layer of the effect, the particle that is followed and windLastTsRef
    cls,            \* the classification pass: its input, its position in the loops and its traces
    cache,          \* the overlay props, the image held, the load in flight, the colour cache and the memo
    loop,           \* the animation loop of the wind effect: its refs, the callbacks waiting and the frames
    scene,          \* the props of a render and the trace list computed from them
    transect,       \* the transect field of a render, its bathymetry and warp, and the trace made of them
    play           \* the state of the application that playback reads and writes, the timer that is set, and whether the effect has yet to run

varsBathy == <<bathyJson, called, grid>>

varsWarp == <<depthWarpProp, warpZ, warpOut>>

varsOverlay == <<hField, bathyAxes, horizontalColor, overlayOut>>

varsLoads == <<ui, runs, loads, lastDone>>

\* the parts added after the loaders, the warp and the overlay
varsMore == <<mask, pal, wind, cls, cache, loop, scene, transect, play>>

vars == <<bathyJson, called, grid, depthWarpProp, warpZ, warpOut, hField, bathyAxes,
          horizontalColor, overlayOut, ui, runs, loads, lastDone,
          mask, pal, wind, cls, cache, loop, scene, transect, play>>

\* the state of each part before anything ran
IdleBathy == bathyJson = NoFile /\ called = FALSE /\ grid = NoGrid

IdleWarp ==
    /\ depthWarpProp = WarpProp("undefined", JUndefined, JUndefined)
    /\ warpZ = JUndefined
    /\ warpOut = JUndefined

IdleOverlay ==
    /\ hField = NoField
    /\ bathyAxes = [lon |-> EmptyArr, lat |-> EmptyArr]
    /\ horizontalColor = NoSurfacecolor
    /\ overlayOut = [made |-> FALSE, result |-> NoSurfacecolor]

IdleLoads == ui = InitialUi /\ runs = [e \in Effects |-> 0] /\ loads = {} /\ lastDone = NoLoad

IdleMask == mask = NoMask

IdlePal == pal = NoPalette

IdleWind == wind = NoWind

IdleCls == cls = NoClasses

IdleCache == cache = NoCache

IdleLoop == loop = NoLoop

IdleScene == scene = NoScene

IdleTransect == transect = NoTransectTrace

IdlePlay == play = NoPlay

IdleMore == IdleMask /\ IdlePal /\ IdleWind /\ IdleCls /\ IdleCache /\ IdleLoop /\ IdleScene /\ IdleTransect /\ IdlePlay

varsOld == <<varsBathy, varsWarp, varsOverlay, varsLoads>>

ElseOfMask == <<varsOld, pal, wind, cls, cache, loop, scene, transect, play>>

ElseOfPal == <<varsOld, mask, wind, cls, cache, loop, scene, transect, play>>

ElseOfWind == <<varsOld, mask, pal, cls, cache, loop, scene, transect, play>>

ElseOfCls == <<varsOld, mask, pal, wind, cache, loop, scene, transect, play>>

ElseOfCache == <<varsOld, mask, pal, wind, cls, loop, scene, transect, play>>

ElseOfLoop == <<varsOld, mask, pal, wind, cls, cache, scene, transect, play>>

ElseOfScene == <<varsOld, mask, pal, wind, cls, cache, loop, transect, play>>

ElseOfTransect == <<varsOld, mask, pal, wind, cls, cache, loop, scene, play>>

ElseOfPlay == <<varsOld, mask, pal, wind, cls, cache, loop, scene, transect>>

IdleOld == IdleBathy /\ IdleWarp /\ IdleOverlay /\ IdleLoads

\* ---- tryLoadBathyJson applied to a file

InitBathy ==
    /\ bathyJson \in Files
    /\ called = FALSE
    /\ grid = NoGrid
    /\ IdleWarp /\ IdleOverlay /\ IdleLoads /\ IdleMore

\* one call of tryLoadBathyJson on the file served
LoadBathyJson ==
    /\ ~called
    /\ called' = TRUE
    /\ grid' = TryLoadBathyJson(bathyJson)
    /\ UNCHANGED <<bathyJson, varsWarp, varsOverlay, varsLoads, varsMore>>

NextBathy == LoadBathyJson

SpecBathy == InitBathy /\ [][NextBathy]_vars

\* ---- the depth warp

InitWarp == IdleBathy /\ IdleWarp /\ IdleOverlay /\ IdleLoads /\ IdleMore

\* the App passes new depth-warp settings
SetDepthWarp ==
    /\ \E m \in WarpModes, fd \in FocusChoices, dr \in RatioChoices :
          depthWarpProp' = WarpProp(m, fd, dr)
    /\ warpZ' = JUndefined
    /\ warpOut' = JUndefined
    /\ UNCHANGED <<varsBathy, varsOverlay, varsLoads, varsMore>>

\* a call of scaleZ
CallScaleZ ==
    /\ \E z \in WarpInputs :
          /\ warpZ' = z
          /\ warpOut' = ScaleZ(DepthWarp(depthWarpProp), z)
    /\ UNCHANGED <<depthWarpProp, varsBathy, varsOverlay, varsLoads, varsMore>>

NextWarp == SetDepthWarp \/ CallScaleZ

SpecWarp == InitWarp /\ [][NextWarp]_vars

\* ---- the overlay colours

InitOverlay ==
    /\ IdleBathy /\ IdleWarp /\ IdleLoads /\ IdleMore
    /\ hField \in Fields
    /\ bathyAxes \in BathyAxes
    /\ horizontalColor \in Surfacecolors
    /\ overlayOut = [made |-> FALSE, result |-> NoSurfacecolor]

\* the data memo computes overlaySurfacecolor
ComputeOverlay ==
    /\ ~overlayOut.made
    /\ overlayOut' = [made |-> TRUE,
                      result |-> OverlaySurfacecolor(hField, horizontalColor, bathyAxes.lon, bathyAxes.lat)]
    /\ UNCHANGED <<hField, bathyAxes, horizontalColor, varsBathy, varsWarp, varsLoads, varsMore>>

NextOverlay == ComputeOverlay

SpecOverlay == InitOverlay /\ [][NextOverlay]_vars

\* ---- the loading effects

MaxRuns == 3

TotalRuns ==
    runs["bathy"] + runs["horizontalImg"] + runs["transectImg"] + runs["meta"]
        + runs["slice"] + runs["seaIce"] + runs["wind"]

InitLoads == IdleBathy /\ IdleWarp /\ IdleOverlay /\ IdleLoads /\ IdleMore

OthersIdle == UNCHANGED <<varsBathy, varsWarp, varsOverlay, varsMore>>

\* an effect body that starts a load: the previous run is cleaned up first
Start(effect, viewMode) ==
    /\ runs' = [runs EXCEPT ![effect] = @ + 1]
    /\ loads' = CleanedUp(loads, effect) \cup {Load(effect, runs[effect] + 1, viewMode)}

\* an effect body that returns without loading
StartNothing(effect) ==
    /\ runs' = [runs EXCEPT ![effect] = @ + 1]
    /\ loads' = CleanedUp(loads, effect)

\* the completion of the load l has been handled
Done(l) == loads' = loads \ {l} /\ lastDone' = l /\ UNCHANGED runs

\* the bathymetry effect runs (mount, or props.bathySource changed)
RunBathy ==
    /\ TotalRuns < MaxRuns
    /\ Start("bathy", "none")
    /\ ui' = [ui EXCEPT !.bathyStatus = "loading"]
    /\ UNCHANGED lastDone /\ OthersIdle

\* tryLoadBathyJson resolved, with a grid or with null
BathyLoaded ==
    /\ \E l \in loads, g \in BOOLEAN :
          /\ l.effect = "bathy"
          /\ Done(l)
          /\ IF Discarded(l) THEN UNCHANGED ui
             ELSE ui' = [ui EXCEPT !.grid = IF g THEN l.id ELSE 0,
                                   !.bathyStatus = IF g THEN "file" ELSE "synthetic"]
    /\ OthersIdle

\* the horizontal image effect runs, with the overlay enabled or not
RunHorizontalImg ==
    /\ TotalRuns < MaxRuns
    /\ \E enabled \in BOOLEAN :
          IF ~enabled
          THEN /\ StartNothing("horizontalImg")
               /\ ui' = [ui EXCEPT !.horizontalImg = 0, !.horizontalImgStatus = "off"]
          ELSE /\ Start("horizontalImg", "none")
               /\ ui' = [ui EXCEPT !.horizontalImgStatus = "loading"]
    /\ UNCHANGED lastDone /\ OthersIdle

HorizontalImgLoaded ==
    /\ \E l \in loads :
          /\ l.effect = "horizontalImg"
          /\ Done(l)
          /\ IF Discarded(l) THEN UNCHANGED ui
             ELSE ui' = [ui EXCEPT !.horizontalImg = l.id, !.horizontalImgStatus = "ready"]
    /\ OthersIdle

HorizontalImgFailed ==
    /\ \E l \in loads :
          /\ l.effect = "horizontalImg"
          /\ Done(l)
          /\ IF Discarded(l) THEN UNCHANGED ui
             ELSE ui' = [ui EXCEPT !.horizontalImg = 0, !.horizontalImgStatus = "failed"]
    /\ OthersIdle

\* the transect image effect runs, with the overlay enabled or not
RunTransectImg ==
    /\ TotalRuns < MaxRuns
    /\ \E enabled \in BOOLEAN :
          IF ~enabled
          THEN /\ StartNothing("transectImg")
               /\ ui' = [ui EXCEPT !.transectImg = 0, !.transectImgStatus = "off"]
          ELSE /\ Start("transectImg", "none")
               /\ ui' = [ui EXCEPT !.transectImgStatus = "loading"]
    /\ UNCHANGED lastDone /\ OthersIdle

TransectImgLoaded ==
    /\ \E l \in loads :
          /\ l.effect = "transectImg"
          /\ Done(l)
          /\ IF Discarded(l) THEN UNCHANGED ui
             ELSE ui' = [ui EXCEPT !.transectImg = l.id, !.transectImgStatus = "ready"]
    /\ OthersIdle

TransectImgFailed ==
    /\ \E l \in loads :
          /\ l.effect = "transectImg"
          /\ Done(l)
          /\ IF Discarded(l) THEN UNCHANGED ui
             ELSE ui' = [ui EXCEPT !.transectImg = 0, !.transectImgStatus = "failed"]
    /\ OthersIdle

\* the metadata effect runs (mount)
RunMeta ==
    /\ TotalRuns < MaxRuns
    /\ Start("meta", "none")
    /\ ui' = [ui EXCEPT !.metaStatus = "loading", !.metaError = 0]
    /\ UNCHANGED lastDone /\ OthersIdle

MetaLoaded ==
    /\ \E l \in loads :
          /\ l.effect = "meta"
          /\ Done(l)
          /\ IF Discarded(l) THEN UNCHANGED ui
             ELSE ui' = [ui EXCEPT !.meta = l.id, !.metaStatus = "ready", !.timeIdx = 0, !.depthIdx = 0]
    /\ OthersIdle

MetaFailed ==
    /\ \E l \in loads :
          /\ l.effect = "meta"
          /\ Done(l)
          /\ IF Discarded(l) THEN UNCHANGED ui
             ELSE ui' = [ui EXCEPT !.meta = 0, !.metaStatus = "failed", !.metaError = l.id]
    /\ OthersIdle

\* the user moves the time or the depth slider
SelectIndex ==
    /\ \E t \in 0..1, d \in 0..1 :
          /\ <<t, d>> # <<ui.timeIdx, ui.depthIdx>>
          /\ ui' = [ui EXCEPT !.timeIdx = t, !.depthIdx = d]
    /\ UNCHANGED <<runs, loads, lastDone>> /\ OthersIdle

\* the slice effect runs while the metadata is not ready: the previous run is
\* cleaned up and the body returns at once
RunSliceNoMeta ==
    /\ MetaNotReady(ui)
    /\ loads' = CleanedUp(loads, "slice")
    /\ loads' # loads
    /\ UNCHANGED <<ui, runs, lastDone>> /\ OthersIdle

\* the slice effect runs with the metadata ready
RunSlice ==
    /\ TotalRuns < MaxRuns
    /\ ~MetaNotReady(ui)
    /\ IF ~projectOn3d
       THEN /\ StartNothing("slice")
            /\ ui' = [ui EXCEPT !.sliceStatus = "off", !.sliceError = 0,
                                 !.classStatus = "off", !.classError = 0,
                                 !.horizontalValues = 0, !.transectValues = 0,
                                 !.transectLatActual = 0, !.classTraces = 0]
       ELSE \E viewMode \in ViewModes :
            /\ Start("slice", viewMode)
            /\ ui' = IF viewMode = "class"
                     THEN [ui EXCEPT !.sliceStatus = "loading", !.sliceError = 0,
                                     !.classStatus = "loading", !.classError = 0]
                     ELSE [ui EXCEPT !.sliceStatus = "loading", !.sliceError = 0]
    /\ UNCHANGED lastDone /\ OthersIdle

\* what the slice closure sets after its await, by view mode
SliceApplied(u, l) ==
    IF l.viewMode = "horizontal"
    THEN [u EXCEPT !.horizontalValues = l.id, !.transectValues = 0, !.transectLatActual = 0,
                   !.classTraces = 0, !.classStatus = "off", !.classError = 0,
                   !.sliceStatus = "ready"]
    ELSE IF l.viewMode = "transect"
    THEN [u EXCEPT !.transectValues = l.id, !.horizontalValues = 0, !.transectLatActual = l.id,
                   !.classTraces = 0, !.classStatus = "off", !.classError = 0,
                   !.sliceStatus = "ready"]
    ELSE [u EXCEPT !.classTraces = l.id, !.horizontalValues = 0, !.transectValues = 0,
                   !.transectLatActual = 0, !.classStatus = "ready", !.sliceStatus = "ready"]

\* a catch block that leaves the values of the previous slice in place
SliceRejectedKeepsValues(u, l) ==
    [u EXCEPT !.sliceStatus = "failed", !.sliceError = l.id,
              !.classStatus = IF l.viewMode = "class" THEN "failed" ELSE "off",
              !.classError = IF l.viewMode = "class" THEN l.id ELSE 0]

\* what its catch block sets
SliceRejected(u, l) ==
    [u EXCEPT !.sliceStatus = "failed", !.sliceError = l.id,
              !.classStatus = IF l.viewMode = "class" THEN "failed" ELSE "off",
              !.classError = IF l.viewMode = "class" THEN l.id ELSE 0,
              !.horizontalValues = 0, !.transectValues = 0,
              !.transectLatActual = 0, !.classTraces = 0]

SliceLoaded ==
    /\ \E l \in loads :
          /\ l.effect = "slice"
          /\ Done(l)
          /\ IF Discarded(l) THEN UNCHANGED ui ELSE ui' = SliceApplied(ui, l)
    /\ OthersIdle

SliceFailed ==
    /\ \E l \in loads :
          /\ l.effect = "slice"
          /\ Done(l)
          /\ IF Discarded(l) THEN UNCHANGED ui ELSE ui' = SliceRejected(ui, l)
    /\ OthersIdle

\* the sea ice effect runs, with the layer shown or not
RunSeaIce ==
    /\ TotalRuns < MaxRuns
    /\ \E showSeaIce \in BOOLEAN :
          IF MetaNotReady(ui) \/ ~projectOn3d \/ ~showSeaIce
          THEN /\ StartNothing("seaIce")
               /\ ui' = [ui EXCEPT !.seaIceStatus = "off", !.seaIceError = 0, !.seaIceValues = 0]
          ELSE /\ Start("seaIce", "none")
               /\ ui' = [ui EXCEPT !.seaIceStatus = "loading", !.seaIceError = 0]
    /\ UNCHANGED lastDone /\ OthersIdle

SeaIceLoaded ==
    /\ \E l \in loads :
          /\ l.effect = "seaIce"
          /\ Done(l)
          /\ IF Discarded(l) THEN UNCHANGED ui
             ELSE ui' = [ui EXCEPT !.seaIceValues = l.id, !.seaIceStatus = "ready"]
    /\ OthersIdle

SeaIceFailed ==
    /\ \E l \in loads :
          /\ l.effect = "seaIce"
          /\ Done(l)
          /\ IF Discarded(l) THEN UNCHANGED ui
             ELSE ui' = [ui EXCEPT !.seaIceValues = 0, !.seaIceStatus = "failed", !.seaIceError = l.id]
    /\ OthersIdle

\* the wind stress effect runs, with the layer shown or not
RunWind ==
    /\ TotalRuns < MaxRuns
    /\ \E showWind \in BOOLEAN :
          IF MetaNotReady(ui) \/ ~projectOn3d \/ ~showWind
          THEN /\ StartNothing("wind")
               /\ ui' = [ui EXCEPT !.windStatus = "off", !.windError = 0, !.windStress = 0]
          ELSE /\ Start("wind", "none")
               /\ ui' = [ui EXCEPT !.windStatus = "loading", !.windError = 0]
    /\ UNCHANGED lastDone /\ OthersIdle

WindLoaded ==
    /\ \E l \in loads :
          /\ l.effect = "wind"
          /\ Done(l)
          /\ IF Discarded(l) THEN UNCHANGED ui
             ELSE ui' = [ui EXCEPT !.windStress = l.id, !.windStatus = "ready"]
    /\ OthersIdle

WindFailed ==
    /\ \E l \in loads :
          /\ l.effect = "wind"
          /\ Done(l)
          /\ IF Discarded(l) THEN UNCHANGED ui
             ELSE ui' = [ui EXCEPT !.windStress = 0, !.windStatus = "failed", !.windError = l.id]
    /\ OthersIdle

\* the component unmounts: every effect's cleanup runs and nothing restarts
Unmount ==
    /\ \E l \in loads : ~l.cancelled
    /\ loads' = {[l EXCEPT !.cancelled = TRUE] : l \in loads}
    /\ UNCHANGED <<ui, runs, lastDone>> /\ OthersIdle

NextLoads ==
    \/ RunBathy \/ BathyLoaded
    \/ RunHorizontalImg \/ HorizontalImgLoaded \/ HorizontalImgFailed
    \/ RunTransectImg \/ TransectImgLoaded \/ TransectImgFailed
    \/ RunMeta \/ MetaLoaded \/ MetaFailed
    \/ SelectIndex
    \/ RunSliceNoMeta \/ RunSlice \/ SliceLoaded \/ SliceFailed
    \/ RunSeaIce \/ SeaIceLoaded \/ SeaIceFailed
    \/ RunWind \/ WindLoaded \/ WindFailed
    \/ Unmount

SpecLoads == InitLoads /\ [][NextLoads]_vars

\* ---- the surface plane and its mask

InitMask == IdleOld /\ IdleMore

\* the data memo builds the surface plane of a numeric field and masks it
MaskField ==
    /\ ~mask.made
    /\ \E h \in MaskFields, o \in MaskOptions, b \in MaskBathys :
          LET sc == OverlaySurfacecolor(h, NoSurfacecolor, b.lon, b.lat)
              plane == PlaneOf(h, o, sc, NoBounds, b)
          IN  mask' = [made |-> TRUE, numeric |-> TRUE, opts |-> o, bathy |-> b, plane |-> plane,
                       valuesMasked |-> ValuesMasked(plane, b)]
    /\ UNCHANGED ElseOfMask

\* the data memo builds the surface plane of a PNG overlay and masks it
MaskImage ==
    /\ ~mask.made
    /\ \E n \in 1..MaxMaskCols, bd \in MaskBounds, b \in MaskBathys :
        \E v \in MaskRows(n) :
          LET sc == OverlaySurfacecolor(NoField, Surfacecolor(TRUE, v), b.lon, b.lat)
              plane == PlaneOf(NoField, MaskOpts("undefined", "undefined", NoBounds), sc, bd, b)
          IN  mask' = [made |-> TRUE, numeric |-> FALSE,
                       opts |-> MaskOpts("undefined", "undefined", bd), bathy |-> b, plane |-> plane,
                       valuesMasked |-> ValuesMasked(plane, b)]
    /\ UNCHANGED ElseOfMask

NextMask == MaskField \/ MaskImage

SpecMask == InitMask /\ [][NextMask]_vars

\* ---- makeLinearPalette

InitPal == IdleOld /\ IdleMore

\* one call of makeLinearPalette
CallMakeLinearPalette ==
    /\ ~pal.made
    /\ \E hexStops \in StopLists, n \in PaletteCounts :
          pal' = [made |-> TRUE, hexStops |-> hexStops, n |-> n, result |-> MakeLinearPalette(hexStops, n)]
    /\ UNCHANGED ElseOfPal

NextPal == CallMakeLinearPalette

SpecPal == InitPal /\ [][NextPal]_vars

\* ---- the wind particles

MaxTs == 3600

InitWind == IdleOld /\ IdleMore

\* the wind effect runs for a layer: it returns early, or spawns the particles
\* (one of them is followed: each is spawned and moved independently of the others)
WindEffect ==
    /\ ~wind.ran
    /\ \E layer \in WindLayers :
          IF WindRuns(layer)
          THEN \E env \in {WindEnv(layer)} : \E p \in Spawn(env) :
                  wind' = [ran |-> TRUE, running |-> TRUE, layer |-> layer, env |-> env,
                           particles |-> <<p>>, windLastTs |-> 0]
          ELSE wind' = [ran |-> TRUE, running |-> FALSE, layer |-> layer, env |-> NoWindEnv,
                        particles |-> <<>>, windLastTs |-> 0]
    /\ UNCHANGED ElseOfWind

\* one animation frame: tick(ts)
WindTick ==
    /\ wind.running
    /\ \E ts \in {IF wind.windLastTs = 0 THEN 1000 ELSE wind.windLastTs + 120} :
          /\ ts <= MaxTs
          /\ \E p \in TickParticle(wind.env, wind.particles[1], TickDt(wind.windLastTs, ts)) :
                wind' = [wind EXCEPT !.particles = <<p>>, !.windLastTs = ts]
    /\ UNCHANGED ElseOfWind

\* the cleanup of the effect
WindCleanup ==
    /\ wind.ran
    /\ wind' = NoWind
    /\ UNCHANGED ElseOfWind

NextWind == WindEffect \/ WindTick \/ WindCleanup

SpecWind == InitWind /\ [][NextWind]_vars

\* ---- the wind particles under a loop that keeps ticking
\* The timestamps are kept relative to the last frame: tick uses
\* windLastTsRef only in ts - windLastTsRef.current and in the test for 0,
\* so the ref holds FrameBase after every frame.

FrameBase == 1000

\* the time from one frame to the next, in milliseconds: a timestamp that
\* does not increase, and a slow frame
FairIntervals == {0, 120}

\* still air on one cell, and flow east over two columns
FairLayers ==
    {WindLayer(TRUE, WindAxis(1, TRUE), WindAxis(1, TRUE),
               WindRows("still", 1, 1, TRUE, TRUE), WindRows("still", 1, 1, TRUE, FALSE), Num(1), Num(110)),
     WindLayer(TRUE, WindAxis(2, TRUE), WindAxis(1, TRUE),
               WindRows("east", 2, 1, TRUE, TRUE), WindRows("east", 2, 1, TRUE, FALSE), Num(1), Num(110))}

\* the wind effect runs for a layer that passes its early returns
FairEffect ==
    /\ ~wind.ran
    /\ \E layer \in FairLayers : \E p \in Spawn(WindEnv(layer)) :
          wind' = [ran |-> TRUE, running |-> TRUE, layer |-> layer, env |-> WindEnv(layer),
                   particles |-> <<p>>, windLastTs |-> 0]
    /\ UNCHANGED ElseOfWind

\* the timestamps the next frame can have
FrameTimes(windLastTs) == IF windLastTs = 0 THEN {FrameBase} ELSE {windLastTs + d : d \in FairIntervals}

\* one animation frame: tick(ts)
FairFrame ==
    /\ wind.running
    /\ \E ts \in FrameTimes(wind.windLastTs) :
          \E p \in TickParticle(wind.env, wind.particles[1], TickDt(wind.windLastTs, ts)) :
              wind' = [wind EXCEPT !.particles = <<p>>, !.windLastTs = FrameBase]
    /\ UNCHANGED ElseOfWind

NextWindFair == FairEffect \/ FairFrame \/ WindCleanup

\* the browser calls the callback that is waiting: a loop that runs keeps ticking
SpecWindFair == InitWind /\ [][NextWindFair]_vars /\ WF_vars(FairFrame)

\* ---- the classification pass of the slice effect (class view)

InitClasses == IdleOld /\ IdleMore

\* the pass up to its loops: the indices, the centres and the empty traces;
\* without centres it is over at once, with no traces
StartClasses ==
    /\ ~cls.on
    /\ \E in \in ClassInputs : \E c \in {ClassConsts(in)} :
          cls' = [on |-> TRUE, in |-> in, c |-> c, pos |-> 0,
                  traces |-> [k \in 1..Len(c.centers) |-> Trace(c.centers[k], k - 1, in.safeTimeIdx)],
                  done |-> c.centers = <<>>, classTraces |-> <<>>]
    /\ UNCHANGED ElseOfCls

\* the number of passes through the innermost loop
ClassSamples(c) == Len(c.zIdx) * Len(c.yIdx) * Len(c.xIdx)

\* one pass through the innermost loop: sample number pos in the order zk, yk, xk
ClassifyStep ==
    /\ cls.on /\ ~cls.done /\ cls.pos < ClassSamples(cls.c)
    /\ LET zIndex == cls.c.zIdx[(cls.pos \div (Len(cls.c.yIdx) * Len(cls.c.xIdx))) + 1]
           yIndex == cls.c.yIdx[((cls.pos \div Len(cls.c.xIdx)) % Len(cls.c.yIdx)) + 1]
           xIndex == cls.c.xIdx[(cls.pos % Len(cls.c.xIdx)) + 1]
           offset == (zIndex * cls.in.ny * cls.in.nx) + (yIndex * cls.in.nx) + xIndex
       IN  cls' = [cls EXCEPT !.pos = @ + 1,
                              !.traces = Classified(@, DataAt(cls.in, offset), MetaLon(cls.in, xIndex),
                                                    MetaLat(cls.in, yIndex), MetaZ(cls.in, zIndex), cls.c)]
    /\ UNCHANGED ElseOfCls

\* after the loops: setClassTraces(filtered)
FinishClasses ==
    /\ cls.on /\ ~cls.done /\ cls.pos = ClassSamples(cls.c)
    /\ cls' = [cls EXCEPT !.done = TRUE, !.classTraces = Filtered(cls.traces)]
    /\ UNCHANGED ElseOfCls

NextClasses == StartClasses \/ ClassifyStep \/ FinishClasses

SpecClasses == InitClasses /\ [][NextClasses]_vars

\* ------------------------------------------------------------------------
\* The overlay images and the memos that colour them
\* ------------------------------------------------------------------------

InitCache == IdleOld /\ IdleMore

\* the component with what the two memos gave
WithMemos(c, colour, curtain) ==
    [c EXCEPT !.horizontalColor = colour.value, !.horizontalColorCache = colour.cache,
              !.transectCurtain = curtain.value, !.transectCurtainCache = curtain.cache]

\* a render: both memos run over the props and state c holds
Rendered(c) ==
    WithMemos(c, HorizontalColorMemo(c.horizontalOverlay, c.horizontalImg, c.axes, c.horizontalColorCache),
              TransectCurtainMemo(c.transectOverlay, c.transectImg, c.axes, c.transectCurtainCache))

\* the horizontal image effect once the render with the new props is done:
\* an overlay that is off drops the image, one that is on starts a load and
\* leaves the image that is held where it is
HorizontalEffect(c) ==
    IF ~c.horizontalOverlay.enabled
    THEN Rendered([c EXCEPT !.horizontalImg = NoImage, !.horizontalImgStatus = "off", !.horizontalLoad = 0])
    ELSE [c EXCEPT !.horizontalImgStatus = "loading", !.horizontalLoad = c.horizontalOverlay.imagePath]

\* the transect image effect, in the same way
TransectEffect(c) ==
    IF ~c.transectOverlay.enabled
    THEN Rendered([c EXCEPT !.transectImg = NoImage, !.transectImgStatus = "off", !.transectLoad = 0])
    ELSE [c EXCEPT !.transectImgStatus = "loading", !.transectLoad = c.transectOverlay.imagePath]

\* the frame the parent shows: the image path of the overlays that are on
Frame ==
    IF cache.horizontalOverlay.enabled THEN cache.horizontalOverlay.imagePath
    ELSE IF cache.transectOverlay.enabled THEN cache.transectOverlay.imagePath
    ELSE 1

\* the parent has the first frame on screen
EarlyFrames == Frame <= 1

\* the other overlay has not been used: the parent passes one overlay
HorizontalUnused == ~cache.horizontalOverlay.enabled /\ cache.horizontalColorCache = <<>>

TransectUnused == ~cache.transectOverlay.enabled /\ cache.transectCurtainCache = <<>>

\* the parent switches the horizontal overlay on
HorizontalOverlayOn ==
    /\ ~cache.horizontalOverlay.enabled
    /\ TransectUnused
    /\ EarlyFrames
    /\ cache.horizontalColorCache = <<>>
    /\ \E overlay \in HorizontalOverlays :
           cache' = HorizontalEffect(Rendered([cache EXCEPT !.horizontalOverlay = overlay]))
    /\ UNCHANGED ElseOfCache

\* the parent switches the transect overlay on
TransectOverlayOn ==
    /\ ~cache.transectOverlay.enabled
    /\ HorizontalUnused
    /\ EarlyFrames
    /\ cache.transectCurtainCache = <<>>
    /\ \E overlay \in TransectOverlays :
           cache' = TransectEffect(Rendered([cache EXCEPT !.transectOverlay = overlay]))
    /\ UNCHANGED ElseOfCache

\* the image effects of the overlays that are on, after a render with new image paths
TransectIfOn(c) == IF c.transectOverlay.enabled THEN TransectEffect(c) ELSE c

HorizontalIfOn(c) == IF c.horizontalOverlay.enabled THEN HorizontalEffect(c) ELSE c

FrameEffects(c) == TransectIfOn(HorizontalIfOn(c))

\* the parent moves to the next frame: every overlay that is on gets the
\* image path of that frame, in one render
NextFrame ==
    /\ cache.horizontalOverlay.enabled \/ cache.transectOverlay.enabled
    /\ Frame < MaxPaths
    /\ cache' = FrameEffects(Rendered([cache EXCEPT
                    !.horizontalOverlay.imagePath = IF cache.horizontalOverlay.enabled THEN @ + 1 ELSE @,
                    !.transectOverlay.imagePath = IF cache.transectOverlay.enabled THEN @ + 1 ELSE @]))
    /\ UNCHANGED ElseOfCache

\* the parent gives the horizontal overlay other bounds: imagePath and
\* enabled are as before, so the effect does not run
HorizontalNewBounds ==
    /\ cache.horizontalOverlay.enabled
    /\ EarlyFrames
    /\ \E b \in HorizontalBounds \ {cache.horizontalOverlay.bounds} :
           cache' = Rendered([cache EXCEPT !.horizontalOverlay.bounds = b])
    /\ UNCHANGED ElseOfCache

\* the parent moves the transect to another latitude
TransectNewLat ==
    /\ cache.transectOverlay.enabled
    /\ EarlyFrames
    /\ \E lat \in TransectLats \ {cache.transectOverlay.lat} :
           cache' = Rendered([cache EXCEPT !.transectOverlay.lat = lat])
    /\ UNCHANGED ElseOfCache

\* the parent switches the horizontal overlay off
HorizontalOverlayOff ==
    /\ cache.horizontalOverlay.enabled
    /\ EarlyFrames
    /\ cache' = HorizontalEffect(Rendered([cache EXCEPT !.horizontalOverlay = NoOverlay]))
    /\ UNCHANGED ElseOfCache

\* the parent switches the transect overlay off
TransectOverlayOff ==
    /\ cache.transectOverlay.enabled
    /\ EarlyFrames
    /\ cache' = TransectEffect(Rendered([cache EXCEPT !.transectOverlay = NoTransect]))
    /\ UNCHANGED ElseOfCache

\* a load that settles: one of the first two frames, or of the last one
Settles(path) == path # 0 /\ (path <= 2 \/ path = MaxPaths)

\* loadImageData resolves for the horizontal effect that is current: one
\* entry leaves a cache of more than 24, the image is set and the memos run
HorizontalImageResolved ==
    /\ Settles(cache.horizontalLoad)
    /\ cache' = Rendered([cache EXCEPT !.horizontalColorCache = Evicted(@, 24),
                                       !.horizontalImg = ImageOf(cache.horizontalLoad),
                                       !.horizontalImgStatus = "ready",
                                       !.horizontalLoad = 0])
    /\ UNCHANGED ElseOfCache

\* loadImageData resolves for the transect effect that is current: one
\* entry leaves a cache of more than 16
TransectImageResolved ==
    /\ Settles(cache.transectLoad)
    /\ cache' = Rendered([cache EXCEPT !.transectCurtainCache = Evicted(@, 16),
                                       !.transectImg = ImageOf(cache.transectLoad),
                                       !.transectImgStatus = "ready",
                                       !.transectLoad = 0])
    /\ UNCHANGED ElseOfCache

\* loadImageData rejects for the horizontal effect that is current
HorizontalImageRejected ==
    /\ Settles(cache.horizontalLoad)
    /\ cache.horizontalLoad <= 2
    /\ cache' = Rendered([cache EXCEPT !.horizontalImg = NoImage,
                                       !.horizontalImgStatus = "failed",
                                       !.horizontalLoad = 0])
    /\ UNCHANGED ElseOfCache

\* loadImageData rejects for the transect effect that is current
TransectImageRejected ==
    /\ Settles(cache.transectLoad)
    /\ cache.transectLoad <= 2
    /\ cache' = Rendered([cache EXCEPT !.transectImg = NoImage,
                                       !.transectImgStatus = "failed",
                                       !.transectLoad = 0])
    /\ UNCHANGED ElseOfCache

\* the bathymetry file arrives and replaces the synthetic grid
BathyGridLoaded ==
    /\ cache.axes = SyntheticAxes
    /\ EarlyFrames
    /\ cache' = Rendered([cache EXCEPT !.axes = FileAxes])
    /\ UNCHANGED ElseOfCache

NextCache ==
    \/ HorizontalOverlayOn
    \/ TransectOverlayOn
    \/ NextFrame
    \/ HorizontalNewBounds
    \/ TransectNewLat
    \/ HorizontalOverlayOff
    \/ TransectOverlayOff
    \/ HorizontalImageResolved
    \/ TransectImageResolved
    \/ HorizontalImageRejected
    \/ TransectImageRejected
    \/ BathyGridLoaded

SpecCache == InitCache /\ [][NextCache]_vars

\* ---- the animation loop of the wind effect

InitLoop == IdleOld /\ IdleMore

\* a run of the effect for (layer, warp): the reset at its head, then the
\* early return or the pool, the first draw and the first request
EffectRun(l, layer, warp) ==
    IF WindRuns(layer)
    THEN {LoopStarted(LoopReset(l), layer, warp, p) : p \in Spawn(WindEnv(layer))}
    ELSE {LoopNotStarted(LoopReset(l), layer, warp)}

\* the cleanup the previous run of the effect returned, if it returned one
LoopCleanedUp(l) == IF l.running THEN LoopReset(l) ELSE l

\* the component mounts: the first run of the effect
LoopMount ==
    /\ ~loop.mounted
    /\ loop.gen < MaxLoops
    /\ \E layer \in LoopLayers, warp \in DepthWarps :
          loop' \in EffectRun([loop EXCEPT !.mounted = TRUE], layer, warp)
    /\ UNCHANGED ElseOfLoop

\* props.windLayer or scaleZ changes: the cleanup, then the effect again
LoopDepsChange ==
    /\ loop.mounted
    /\ loop.gen < MaxLoops
    /\ \E layer \in LoopLayers, warp \in DepthWarps :
          /\ <<layer, warp>> # <<loop.layer, loop.warp>>
          /\ loop' \in EffectRun(LoopCleanedUp(loop), layer, warp)
    /\ UNCHANGED ElseOfLoop

\* the component unmounts: the cleanup
LoopUnmount ==
    /\ loop.mounted
    /\ loop' = [LoopCleanedUp(loop) EXCEPT !.mounted = FALSE, !.running = FALSE]
    /\ UNCHANGED ElseOfLoop

\* an animation frame: the browser calls a waiting callback
LoopFrame ==
    /\ loop.nextId <= MaxFrames
    /\ \E cb \in loop.queue, d \in FrameIntervals :
          IF cb.gen = loop.gen /\ loop.running
          THEN \E p \in TickParticle(loop.env, loop.particles[1], TickDt(loop.windLastTs, loop.now + d)) :
                  loop' = TickEnd(TickAdvected(CallbackTaken(loop, cb, loop.now + d), loop.now + d, p),
                                  loop.now + d, cb.gen)
          ELSE loop' = TickEnd([CallbackTaken(loop, cb, loop.now + d) EXCEPT !.windLastTs = loop.now + d],
                               loop.now + d, cb.gen)
    /\ UNCHANGED ElseOfLoop

NextLoop == LoopMount \/ LoopDepsChange \/ LoopUnmount \/ LoopFrame

SpecLoop == InitLoop /\ [][NextLoop]_vars

\* ---- the trace list

InitData == IdleOld /\ IdleMore

\* a render: the memo data is computed for the props
RenderData ==
    /\ ~scene.made
    /\ \E props \in DataProps :
          /\ props.zRawFits \/ props.landMax = 0
          /\ props.horizontalOverlay.given \/ ~props.horizontalColor
          /\ props.transectOverlay \/ ~props.transectCurtain
          /\ scene' = [made |-> TRUE, props |-> props, data |-> Data(props)]
    /\ UNCHANGED ElseOfScene

NextData == RenderData

SpecData == InitData /\ [][NextData]_vars

\* ---- the curtain of the transect field

InitCurtain == IdleOld /\ IdleMore

\* a render with a transect field: the trace "Transect" is computed
RenderTransect ==
    /\ ~transect.made
    /\ \E t \in TransectFieldProps, b \in CurtainBathys, w \in CurtainWarps :
          transect' = [made |-> TRUE, t |-> t, bathy |-> b, warp |-> w, trace |-> TransectTrace(t, b, w)]
    /\ UNCHANGED ElseOfTransect

NextCurtain == RenderTransect

SpecCurtain == InitCurtain /\ [][NextCurtain]_vars

\* ------------------------------------------------------------------------
\* Playback (App): mounting, the metadata, the controls, the loads, the timer
\* ------------------------------------------------------------------------

InitPlay == IdleOld /\ IdleMore

\* the application is mounted: either version of the playback effect
PlayMount ==
    /\ ~play.mounted
    /\ \E gated \in BOOLEAN : play' = [NoPlay EXCEPT !.mounted = TRUE, !.seaIceGated = gated]
    /\ UNCHANGED ElseOfPlay

\* loadGsZarrMeta resolves: meta, "ready", setTimeIdx(0)
MetaResolved ==
    /\ play.mounted /\ play.metaStatus = "loading"
    /\ \E n \in 0..MaxSteps :
          play' = Committed([play EXCEPT !.metaStatus = "ready", !.n = n, !.timeIdx = 0])
    /\ UNCHANGED ElseOfPlay

\* loadGsZarrMeta rejects
MetaRejected ==
    /\ play.mounted /\ play.metaStatus = "loading"
    /\ play' = Committed([play EXCEPT !.metaStatus = "failed"])
    /\ UNCHANGED ElseOfPlay

\* the movie switch, enabled once there are time steps
SetPlaying ==
    /\ play.mounted /\ play.metaStatus = "ready" /\ play.n # 0
    /\ play' = PlaybackEffectRun([play EXCEPT !.playing = ~play.playing])
    /\ UNCHANGED ElseOfPlay

\* the time slider, from 0 to max(0, length - 1)
SeekTime ==
    /\ play.mounted /\ play.metaStatus = "ready" /\ play.n # 0
    /\ \E v \in 0..Max(0, play.n - 1) : play' = PlaybackEffectRun([play EXCEPT !.timeIdx = v])
    /\ UNCHANGED ElseOfPlay

\* the sea ice switch
SetShowSeaIce ==
    /\ play.mounted
    /\ play' = PlaybackEffectRun([play EXCEPT !.showSeaIce = ~play.showSeaIce])
    /\ UNCHANGED ElseOfPlay

\* the slice effect starts a load
SliceLoadStarted ==
    /\ play.mounted /\ play.metaStatus = "ready" /\ play.sliceStatus # "loading"
    /\ play' = Committed([play EXCEPT !.sliceStatus = "loading"])
    /\ UNCHANGED ElseOfPlay

\* the load of the slice settles
SliceLoadSettled ==
    /\ play.mounted /\ play.sliceStatus = "loading"
    /\ \E s \in {"ready", "failed"} : play' = Committed([play EXCEPT !.sliceStatus = s])
    /\ UNCHANGED ElseOfPlay

\* the sea ice effect: "off" without the layer, else a load starts
SeaIceEffect ==
    /\ play.mounted /\ play.metaStatus = "ready"
    /\ play.seaIceStatus # (IF play.showSeaIce THEN "loading" ELSE "off")
    /\ play' = Committed([play EXCEPT !.seaIceStatus = IF play.showSeaIce THEN "loading" ELSE "off"])
    /\ UNCHANGED ElseOfPlay

\* the load of the sea ice settles
SeaIceLoadSettled ==
    /\ play.mounted /\ play.seaIceStatus = "loading"
    /\ \E s \in {"ready", "failed"} : play' = Committed([play EXCEPT !.seaIceStatus = s])
    /\ UNCHANGED ElseOfPlay

\* the playback effect runs after a commit that changed one of its dependencies
PlaybackEffect ==
    /\ play.stale
    /\ play' = PlaybackEffectRun(play)
    /\ UNCHANGED ElseOfPlay

\* the timer fires
TimerFires ==
    /\ play.timer.on
    /\ play' = [play EXCEPT !.timeIdx = TimerCallback(play.timer, play.timeIdx), !.tick = ~play.tick]
    /\ UNCHANGED ElseOfPlay

NextPlay ==
    \/ PlayMount \/ MetaResolved \/ MetaRejected \/ SetPlaying \/ SeekTime \/ SetShowSeaIce
    \/ SliceLoadStarted \/ SliceLoadSettled \/ SeaIceEffect \/ SeaIceLoadSettled
    \/ PlaybackEffect \/ TimerFires

SpecPlay == InitPlay /\ [][NextPlay]_vars

\* ------------------------------------------------------------------------
\* Claims about tryLoadBathyJson (checked under SpecBathy)
\* ------------------------------------------------------------------------

\* the file passes the array checks of tryLoadBathyJson
HasArrays(f) == f.fetched /\ f.lonIsArr /\ f.latIsArr /\ f.zIsArr

\* every cell (j, i) of zNumeric satisfies P
AllCells(zn, P(_, _)) == \A j \in 0..(Rows(zn) - 1) : \A i \in 0..(RowLength(zn, j) - 1) : P(j, i)

\* the finite values are all non-negative and one of them is positive
NonNegWithPositive(zn) ==
    /\ AllCells(zn, LAMBDA j, i : IsFinite(CellAt(zn, j, i)) => CellAt(zn, j, i).v >= 0)
    /\ ~AllCells(zn, LAMBDA j, i : ~(IsFinite(CellAt(zn, j, i)) /\ CellAt(zn, j, i).v > 0))

\* a negative finite value and no positive one
NegWithoutPositive(zn) ==
    /\ AllCells(zn, LAMBDA j, i : IsFinite(CellAt(zn, j, i)) => CellAt(zn, j, i).v <= 0)
    /\ ~AllCells(zn, LAMBDA j, i : ~(IsFinite(CellAt(zn, j, i)) /\ CellAt(zn, j, i).v < 0))

\* C1: a grid whose finite values are all non-negative, one of them positive,
\* comes out with every cell negated once (output cell = -input cell), and
\* normalizing the output again flips no cell: a negative value is present.
T_C1 ==
    (called /\ HasArrays(bathyJson) /\ NonNegWithPositive(ZNumeric(bathyJson))) =>
        LET in == ZNumeric(bathyJson)
            out == SignNormalize(in)
            again == SignNormalize(out)
        IN  /\ grid.ok => grid.zRaw = out
            /\ AllCells(in, LAMBDA j, i : CellAt(out, j, i) = Neg(CellAt(in, j, i)))
            /\ HasNeg(out)
            /\ AllCells(in, LAMBDA j, i : CellAt(again, j, i) = CellAt(out, j, i))

\* the all-positive scenario grid z=[[2000,2100],[1900,2050]] was loaded: z[0][0] = -2000
W_C1 ==
    /\ called /\ grid.ok
    /\ bathyJson.tile = ScenarioPosTile /\ bathyJson.nLat = 2 /\ bathyJson.nLon = 2
    /\ bathyJson.bad = "none" /\ bathyJson.rows = 2
    /\ GridZRawAt(grid, 0, 0) = Num(0 - 2000)
    /\ GridZAt(grid, 0, 0) = Num(0 - 2000)
    /\ GridZRawAt(grid, 1, 1) = Num(0 - 2050)

\* C2: in the returned grid, downsampled or not, every finite cell has
\* z[j][i] = min(0, zRaw[j][i]); a grid with a negative and no positive value
\* is not flipped (zRaw keeps the file's values) and its zRaw equals its z.
T_C2 ==
    (called /\ grid.ok) =>
        /\ \A r \in 0..(GridRows(grid) - 1) : \A c \in 0..(GridRowLength(grid, r) - 1) :
              IsFinite(GridZAt(grid, r, c)) =>
                 /\ IsFinite(GridZRawAt(grid, r, c))
                 /\ GridZAt(grid, r, c).v = Min(0, GridZRawAt(grid, r, c).v)
        /\ NegWithoutPositive(ZNumeric(bathyJson)) =>
              /\ grid.zRaw = ZNumeric(bathyJson)
              /\ \A r \in 0..(GridRows(grid) - 1) : \A c \in 0..(GridRowLength(grid, r) - 1) :
                    GridZRawAt(grid, r, c) = GridZAt(grid, r, c)

\* a grid with land and ocean was loaded: a land cell is clamped in z and keeps its sign in zRaw
W_C2 ==
    /\ called /\ grid.ok
    /\ \E r \in 0..(GridRows(grid) - 1) : \E c \in 0..(GridRowLength(grid, r) - 1) :
          /\ IsFinite(GridZRawAt(grid, r, c)) /\ GridZRawAt(grid, r, c).v > 0
          /\ GridZAt(grid, r, c) = Num(0)
    /\ \E r \in 0..(GridRows(grid) - 1) : \E c \in 0..(GridRowLength(grid, r) - 1) :
          IsFinite(GridZAt(grid, r, c)) /\ GridZAt(grid, r, c).v < 0

\* idx is strictly increasing, begins with 0 and ends with n - 1
CoversAxis(idx, n) ==
    /\ idx.len >= 1
    /\ idx.at[0] = 0
    /\ idx.at[idx.len - 1] = n - 1
    /\ \A k \in 0..(idx.len - 2) : idx.at[k] < idx.at[k + 1]

\* C3: whenever nLat * nLon exceeds the point budget, the grid returned is
\* downsampled: the selected row and column indices are strictly increasing,
\* begin with 0 and end with the last index of the axis, and lon, lat, z and
\* zRaw hold the sign-corrected original values at those indices.
T_C3 ==
    (called /\ grid.ok /\ bathyJson.nLat * bathyJson.nLon > maxPoints) =>
        LET zn == SignNormalize(ZNumeric(bathyJson))
            lon == GridLon(grid)
            lat == GridLat(grid)
        IN  /\ grid.down
            /\ CoversAxis(grid.latIdx, bathyJson.nLat)
            /\ CoversAxis(grid.lonIdx, bathyJson.nLon)
            /\ lon.len = grid.lonIdx.len /\ lat.len = grid.latIdx.len
            /\ GridRows(grid) = grid.latIdx.len
            /\ \A c \in 0..(grid.lonIdx.len - 1) : lon.at[c] = JsonLon(bathyJson).at[grid.lonIdx.at[c]]
            /\ \A r \in 0..(grid.latIdx.len - 1) : lat.at[r] = JsonLat(bathyJson).at[grid.latIdx.at[r]]
            /\ \A r \in 0..(grid.latIdx.len - 1) :
                  /\ GridRowLength(grid, r) = grid.lonIdx.len
                  /\ \A c \in 0..(grid.lonIdx.len - 1) :
                        grid.lonIdx.at[c] < RowLength(zn, grid.latIdx.at[r]) =>
                          /\ GridZRawAt(grid, r, c) = CellAt(zn, grid.latIdx.at[r], grid.lonIdx.at[c])
                          /\ GridZAt(grid, r, c) = ClampCell(CellAt(zn, grid.latIdx.at[r], grid.lonIdx.at[c]))

\* an all-positive grid above the budget was flipped and then downsampled with
\* a stride of 2 or more, the last index added after the strided ones
W_C3 ==
    /\ called /\ grid.ok /\ grid.down /\ grid.zRaw.flipped
    /\ grid.lonIdx.len < bathyJson.nLon
    /\ grid.lonIdx.at[grid.lonIdx.len - 1] - grid.lonIdx.at[grid.lonIdx.len - 2] = 1
    /\ grid.lonIdx.at[1] >= 2

\* the number of points of the returned grid
GridPoints(g) == IF g.down THEN g.latIdx.len * g.lonIdx.len ELSE g.zRaw.file.nLat * g.zRaw.file.nLon

\* C4: the returned grid never has more points (rows x columns) than the
\* point budget of 250,000.
CX_C4 == (called /\ grid.ok) => GridPoints(grid) <= maxPoints

\* lon, lat or z missing or no array, or z ragged
Malformed(f) ==
    \/ ~HasArrays(f)
    \/ f.rows # f.nLat
    \/ \E j \in 0..(f.rows - 1) : ~RowIsArray(f, j) \/ RowLength(ZNumeric(f), j) # f.nLon

\* C5: tryLoadBathyJson yields no grid for every input in which lon, lat or z
\* is missing or no array, or in which the rows of z are ragged.
CX_C5 == (called /\ Malformed(bathyJson)) => ~grid.ok

\* ------------------------------------------------------------------------
\* Claims about the loading effects
\* ------------------------------------------------------------------------

\* the load l was torn down, or superseded by a newer run of its effect
Stale(l) == l.cancelled \/ l.id # runs[l.effect]

\* a step that handles the completion of a stale load changes no React state
StaleChangesNothing == \A l \in loads : (Stale(l) /\ l \notin loads' /\ lastDone' = l) => ui' = ui

\* only the newest run of an effect has a live closure
OnlyLatestLive == \A l \in loads : ~l.cancelled => l.id = runs[l.effect]

\* whatever an effect has applied is what its most recent run produced
LatestApplied ==
    /\ ui.bathyStatus = "file" => ui.grid = runs["bathy"]
    /\ ui.grid \in {0, runs["bathy"]} \/ ui.bathyStatus = "loading"
    /\ ui.horizontalImgStatus = "ready" => ui.horizontalImg = runs["horizontalImg"]
    /\ ui.horizontalImgStatus \in {"off", "failed"} => ui.horizontalImg = 0
    /\ ui.transectImgStatus = "ready" => ui.transectImg = runs["transectImg"]
    /\ ui.transectImgStatus \in {"off", "failed"} => ui.transectImg = 0
    /\ ui.metaStatus = "ready" => ui.meta = runs["meta"]
    /\ ui.metaStatus = "failed" => (ui.meta = 0 /\ ui.metaError = runs["meta"])
    /\ ui.sliceStatus = "ready" =>
          {ui.horizontalValues, ui.transectValues, ui.classTraces} = {0, runs["slice"]}
    /\ ui.sliceStatus = "failed" =>
          /\ {ui.horizontalValues, ui.transectValues, ui.classTraces} = {0}
          /\ ui.sliceError = runs["slice"]
    /\ ui.seaIceStatus = "ready" => ui.seaIceValues = runs["seaIce"]
    /\ ui.seaIceStatus = "failed" => (ui.seaIceValues = 0 /\ ui.seaIceError = runs["seaIce"])
    /\ ui.windStatus = "ready" => ui.windStress = runs["wind"]
    /\ ui.windStatus = "failed" => (ui.windStress = 0 /\ ui.windError = runs["wind"])

\* C6: last request wins for every asynchronous load: the completion, success
\* or failure, of a load whose effect was torn down or superseded changes no
\* state, only the newest run of an effect is live, and the data and status an
\* effect has applied are those of its most recent run.
T_C6 == [][StaleChangesNothing]_vars /\ [](OnlyLatestLive /\ LatestApplied)

\* the slice effect ran twice, the second load was applied, and the first
\* load's completion came last and was discarded
W_C6 ==
    /\ runs["slice"] = 2
    /\ lastDone.effect = "slice" /\ lastDone.id = 1 /\ lastDone.cancelled
    /\ ui.sliceStatus = "ready"
    /\ {ui.horizontalValues, ui.transectValues, ui.classTraces} = {0, 2}

\* ------------------------------------------------------------------------
\* Claims about scaleZ
\* ------------------------------------------------------------------------

\* the warp in force
CurrentWarp == DepthWarp(depthWarpProp)

FiniteInputs == {z \in WarpInputs : IsFinite(z)}

\* C7: under the warp configuration in force, whatever its mode, focus depth
\* and deep ratio, any two depths d1 < d2 <= 0 satisfy scaleZ(d1) <= scaleZ(d2).
T_C7 ==
    \A z1, z2 \in FiniteInputs :
        (z1.v < z2.v /\ z2.v <= 0) =>
            /\ IsFinite(ScaleZ(CurrentWarp, z1))
            /\ IsFinite(ScaleZ(CurrentWarp, z2))
            /\ ScaleZ(CurrentWarp, z1).v <= ScaleZ(CurrentWarp, z2).v

\* scaleZ compressed a depth below the focus depth, and a shallower depth
\* maps strictly above it
W_C7 ==
    /\ CurrentWarp.mode = "upper"
    /\ IsFinite(warpZ) /\ IsFinite(warpOut)
    /\ warpZ.v < 0 - CurrentWarp.focusDepthM.v
    /\ warpOut # warpZ
    /\ \E z2 \in FiniteInputs :
          /\ warpZ.v < z2.v /\ z2.v < 0 - CurrentWarp.focusDepthM.v
          /\ warpOut.v < ScaleZ(CurrentWarp, z2).v

\* the reference function, on hundredths
RefClamp(lo, hi, x) == Max(lo, Min(hi, x))

RefScaleZ(p, z) ==
    IF z >= 0 THEN z
    ELSE IF p.mode = "linear" THEN z
    ELSE LET focus == RefClamp(50 * 100, 20000 * 100, p.focusDepthM.v)
             ratio == RefClamp(5, 100, p.deepRatio.v)
         IN  IF 0 - z <= focus THEN z
             ELSE 0 - (focus + (((0 - z) - focus) * ratio) \div 100)

\* mode, focus depth and deep ratio are all configured
Configured(p) == p.mode # "undefined" /\ IsFinite(p.focusDepthM) /\ IsFinite(p.deepRatio)

\* C8: for every configured mode, focus depth and deep ratio, the result of
\* scaleZ on a finite z is the reference function's: z for z >= 0, z in linear
\* mode, and in upper mode z when -z <= focus and -(focus + (-z - focus) * ratio)
\* otherwise, with focus clamped into [50, 20000] and ratio into [0.05, 1].
T_C8 ==
    (IsFinite(warpZ) /\ Configured(depthWarpProp)) =>
        warpOut = Num(RefScaleZ(depthWarpProp, warpZ.v))

\* scaleZ ran in upper mode with a focus depth outside [50, 20000] and a
\* deep ratio outside [0.05, 1], on a depth below the clamped focus
W_C8 ==
    /\ Configured(depthWarpProp)
    /\ depthWarpProp.mode = "upper"
    /\ depthWarpProp.focusDepthM # CurrentWarp.focusDepthM
    /\ depthWarpProp.deepRatio # CurrentWarp.deepRatio
    /\ IsFinite(warpZ)
    /\ warpZ.v < 0 - CurrentWarp.focusDepthM.v
    /\ IsFinite(warpOut) /\ warpOut # warpZ

\* ------------------------------------------------------------------------
\* Claims about overlaySurfacecolor
\* ------------------------------------------------------------------------

\* k is the lowest index of the axis whose coordinate is closest to x
IsNearest(axis, x, k) ==
    /\ \A m \in 0..(axis.len - 1) : Abs(axis.at[k] - x) <= Abs(axis.at[m] - x)
    /\ \A m \in 0..(k - 1) : Abs(axis.at[m] - x) > Abs(axis.at[k] - x)

Nearest(axis, x) == CHOOSE k \in 0..(axis.len - 1) : IsNearest(axis, x, k)

\* the field's value at (j, i), NaN where the field has none
SourceValue(values, j, i) ==
    IF j < values.len /\ i < values.at[j].len THEN values.at[j].at[i] ELSE NaN

\* the field went through the index mapping: it carries lon and lat and its
\* shape is not the bathymetry grid's
Resampled ==
    /\ overlayOut.made
    /\ hField.present /\ hField.hasAxes
    /\ ~(hField.values.len = bathyAxes.lat.len /\ hField.values.at[0].len = bathyAxes.lon.len)

\* C9: where the field is resampled, the result has the bathymetry grid's
\* shape and every cell (j, i) holds the field's value at the indices whose
\* latitude and longitude are closest to the cell's (the lowest index on a tie).
T_C9 ==
    Resampled =>
        /\ overlayOut.result.defined
        /\ overlayOut.result.values.len = bathyAxes.lat.len
        /\ \A j \in 0..(bathyAxes.lat.len - 1) :
              /\ overlayOut.result.values.at[j].len = bathyAxes.lon.len
              /\ \A i \in 0..(bathyAxes.lon.len - 1) :
                    overlayOut.result.values.at[j].at[i] =
                        SourceValue(hField.values,
                                    Nearest(hField.lat, bathyAxes.lat.at[j]),
                                    Nearest(hField.lon, bathyAxes.lon.at[i]))

\* the worked example: longitudes -10, -5, 0 resampled onto -10, -7, -4, -1, 2
\* give -10, -5, -5, 0, 0
W_C9 ==
    /\ Resampled
    /\ hField.lon = ScenarioFieldLon
    /\ bathyAxes.lon = ScenarioBathyLon
    /\ overlayOut.result.values.at[0].at =
           [i \in 0..4 |-> Num(IF i = 0 THEN 0 - 10 ELSE IF i < 3 THEN 0 - 5 ELSE 0)]

\* every row of the values has the bathymetry grid's width, and there are as
\* many rows as bathymetry latitudes
ShapeMatches ==
    /\ hField.values.len = bathyAxes.lat.len
    /\ \A j \in 0..(hField.values.len - 1) : hField.values.at[j].len = bathyAxes.lon.len

\* C10: a field whose values have as many rows as the bathymetry has latitudes
\* and as many columns as it has longitudes is returned unchanged.
T_C10 ==
    (overlayOut.made /\ hField.present /\ ShapeMatches) =>
        overlayOut.result = Surfacecolor(TRUE, hField.values)

\* a field on other longitudes than the bathymetry's, but of its shape, came
\* back unchanged
W_C10 ==
    /\ overlayOut.made /\ hField.present /\ ShapeMatches
    /\ hField.hasAxes
    /\ hField.lon # bathyAxes.lon
    /\ hField.values.len # hField.values.at[0].len
    /\ overlayOut.result.values = hField.values

\* ------------------------------------------------------------------------
\* Claims about the surface mask
\* ------------------------------------------------------------------------

\* the cells of the plane
PlaneCells ==
    {<<j, i>> : j \in 0..(MaxMaskCols - 1), i \in 0..(MaxMaskCols - 1)} \cap
    {c \in (0..(MaxMaskCols - 1)) \X (0..(MaxMaskCols - 1)) :
        c[1] < mask.plane.values.len /\ c[2] < mask.plane.values.at[c[1]].len}

SourceCell(c) == mask.plane.values.at[c[1]].at[c[2]]

MaskedAt(c) == mask.valuesMasked.at[c[1]].at[c[2]]

\* C11: whatever zeroAsMissing, maskDryByBathy, the bounds and the bathymetry
\* depth are, a cell of the surface plane whose source value is not finite is
\* NaN in valuesMasked.
T_C11 ==
    mask.made =>
        \A c \in PlaneCells : SourceCell(c).t # "number" => MaskedAt(c) = NaN

\* a plane with no mask setting on, a non-finite cell masked and a finite one kept
W_C11 ==
    /\ mask.made /\ mask.numeric
    /\ ~mask.plane.zeroAsMissing /\ ~mask.plane.maskDryByBathy /\ ~mask.plane.bounds.present
    /\ \E c \in PlaneCells : SourceCell(c) = NaN /\ MaskedAt(c) = NaN
    /\ \E c \in PlaneCells : SourceCell(c) = Num(7) /\ MaskedAt(c) = Num(7)

\* the field's own zeroAsMissing setting is on
ZeroAsMissingSet == mask.opts.zeroAsMissing = "true"

\* C12 as stated: a cell of a scalar field whose value is exactly 0 is missing
\* when zeroAsMissing is true and is the valid value 0 when it is false.
CX_C12 ==
    (mask.made /\ mask.numeric) =>
        \A c \in PlaneCells : SourceCell(c) = Num(0) =>
            MaskedAt(c) = (IF ZeroAsMissingSet THEN NaN ELSE Num(0))

\* the cell lies outside the declared bounds
OutOfBounds(c) ==
    /\ mask.opts.bounds.present
    /\ ~(/\ c[2] < mask.plane.x.len /\ c[1] < mask.plane.y.len
          /\ \E lo, hi \in {mask.opts.bounds.lonMin, mask.opts.bounds.lonMax} :
                lo <= mask.plane.x.at[c[2]] /\ mask.plane.x.at[c[2]] <= hi
          /\ \E south, north \in {mask.opts.bounds.latMin, mask.opts.bounds.latMax} :
                south <= mask.plane.y.at[c[1]] /\ mask.plane.y.at[c[1]] <= north)

\* the cell is dry: maskDryByBathy is not off, the bathymetry file has an ocean
\* depth, and the depth of the bathymetry cell nearest to it is at or above sea level
DryCell(c) ==
    /\ mask.opts.maskDryByBathy # "false"
    /\ mask.bathy.hasZRaw
    /\ \E i \in 0..(mask.bathy.zRaw.at[0].len - 1) : mask.bathy.zRaw.at[0].at[i].v < 0
    /\ c[2] < mask.plane.x.len /\ c[1] < mask.plane.y.len
    /\ mask.bathy.z.at[Nearest(mask.bathy.lat, mask.plane.y.at[c[1]])]
                  .at[Nearest(mask.bathy.lon, mask.plane.x.at[c[2]])].v >= 0

\* C12: a cell of a scalar field whose value is exactly 0 is missing when
\* zeroAsMissing is true; when it is false the cell is the valid value 0
\* unless it lies outside the declared bounds or is dry by the bathymetry,
\* and then it is missing too.
T_C12 ==
    (mask.made /\ mask.numeric) =>
        \A c \in PlaneCells : SourceCell(c) = Num(0) =>
            MaskedAt(c) = (IF ZeroAsMissingSet \/ OutOfBounds(c) \/ DryCell(c) THEN NaN ELSE Num(0))

\* with zeroAsMissing off, bounds declared and the dry mask on over a
\* bathymetry with ocean depths: one zero kept as 0 and another one masked
W_C12 ==
    /\ mask.made /\ mask.numeric
    /\ ~ZeroAsMissingSet /\ mask.opts.maskDryByBathy = "true" /\ mask.opts.bounds.present
    /\ \E c \in PlaneCells : SourceCell(c) = Num(0) /\ MaskedAt(c) = Num(0)
    /\ \E c \in PlaneCells : SourceCell(c) = Num(0) /\ MaskedAt(c) = NaN

\* ------------------------------------------------------------------------
\* Claims about makeLinearPalette
\* ------------------------------------------------------------------------

\* at least two stops, each of six hex digits, and a count n >= 0
PaletteInputsValid ==
    /\ Len(pal.hexStops) >= 2
    /\ \A k \in 1..Len(pal.hexStops) : Len(pal.hexStops[k].digits) = 6
    /\ pal.n >= 0

\* the bytes of the first stop, read pair by pair
FirstStopColour ==
    LET d == pal.hexStops[1].digits
    IN  [r |-> (d[1] * 16) + d[2], g |-> (d[3] * 16) + d[4], b |-> (d[5] * 16) + d[6]]

\* C13: given at least two hex stops and a count n, makeLinearPalette returns
\* an array of exactly n colours, and for n = 1 the array holds the first stop.
T_C13 ==
    (pal.made /\ PaletteInputsValid) =>
        /\ ~pal.result.threw
        /\ pal.result.out.len = pal.n
        /\ pal.n = 1 => pal.result.out.at[0] = FirstStopColour

\* a palette of MaxPaletteN colours over three stops, from the first to the last
W_C13 ==
    /\ pal.made /\ PaletteInputsValid
    /\ pal.n = MaxPaletteN /\ Len(pal.hexStops) = 3
    /\ pal.result.out.len = MaxPaletteN
    /\ pal.result.out.at[0] = FirstStopColour
    /\ pal.result.out.at[0] # pal.result.out.at[MaxPaletteN - 1]

\* ------------------------------------------------------------------------
\* Claims about the wind particles
\* ------------------------------------------------------------------------

\* the particle that is followed, and what the effect computed for its layer
TheParticle == wind.particles[1]

\* a particle as spawn() returns it: its trail holds its position only
FreshlySpawned(p) == Len(p.trailX) = 1

InsideBox(p) ==
    /\ wind.env.lonMin <= p.x /\ p.x <= wind.env.lonMax
    /\ wind.env.latMin <= p.y /\ p.y <= wind.env.latMax

\* C14: a particle returned by spawn(), at the start and at every respawn,
\* lies inside [lonMin, lonMax] x [latMin, latMax], also when the box has no width.
T_C14 == (wind.running /\ FreshlySpawned(TheParticle)) => InsideBox(TheParticle)

\* a respawn (the clock has ticked) on a field of a single longitude, whose box has no width
W_C14 ==
    /\ wind.running /\ wind.windLastTs # 0
    /\ FreshlySpawned(TheParticle)
    /\ Len(wind.layer.lon) = 1 /\ Len(wind.layer.lat) > 1
    /\ TheParticle.speedMag > 0
    /\ InsideBox(TheParticle)

\* a step of the clock: tick ran for the particle that is followed
IsTick == wind.running /\ wind'.running /\ wind'.windLastTs # wind.windLastTs

\* the dt of the tick that is being taken
StepDt == TickDt(wind.windLastTs, wind'.windLastTs)

\* the particle before the tick and the one in its place after it
Before == wind.particles[1]

After == wind'.particles[1]

\* the point half a step of dt along the velocity vel from p
MidpointOf(p, vel, dt) ==
    [x |-> p.x + RoundDiv(vel.uu * wind.env.advectScale.n * dt, wind.env.advectScale.d * 2),
     y |-> p.y + RoundDiv(vel.vv * wind.env.advectScale.n * dt, wind.env.advectScale.d * 2)]

\* what a step of dt from p reads and where it leads: the sample at p, the
\* sample at the midpoint, the velocity that moves the particle (the
\* midpoint's, or the one at p when the midpoint has none) and the new position
StepFrom(p, dt) ==
    LET here == Sample(wind.env, p.x, p.y)
        mid == MidpointOf(p, here, dt)
        atMid == Sample(wind.env, mid.x, mid.y)
        movedBy == IF atMid.ok THEN atMid ELSE here
        x == p.x + RoundDiv(movedBy.uu * wind.env.advectScale.n * dt, wind.env.advectScale.d)
        y == p.y + RoundDiv(movedBy.vv * wind.env.advectScale.n * dt, wind.env.advectScale.d)
    IN  [here |-> here, atMid |-> atMid, movedBy |-> movedBy, x |-> x, y |-> y,
         leaves |-> x < wind.env.lonMin \/ x > wind.env.lonMax \/ y < wind.env.latMin \/ y > wind.env.latMax]

TtlExpired == Before.ttl <= 0

NoDataHere(step) == ~step.here.ok

NoDataAtMidpoint(step) == step.here.ok /\ ~step.atMid.ok

LeavesBox(step) == step.here.ok /\ step.leaves

\* C17 as stated: in a tick the particle is replaced by a freshly spawned one
\* when its TTL is <= 0, when the sample at its position fails, when the sample
\* at the midpoint fails, or when its new position leaves the bounding box.
CX_C17 ==
    [][IsTick =>
        LET step == StepFrom(Before, StepDt)
        IN  (TtlExpired \/ NoDataHere(step) \/ NoDataAtMidpoint(step) \/ LeavesBox(step))
                => FreshlySpawned(After)]_vars

\* C17: in a tick the particle is replaced by a freshly spawned one exactly
\* when its TTL is <= 0, or the sample at its position fails, or its new
\* position leaves the bounding box; a failed sample at the midpoint alone
\* replaces nothing: the particle is moved by the velocity at its position.
T_C17 ==
    [][IsTick =>
        LET step == StepFrom(Before, StepDt)
        IN  /\ FreshlySpawned(After) <=> (TtlExpired \/ NoDataHere(step) \/ LeavesBox(step))
            /\ (~TtlExpired /\ NoDataAtMidpoint(step) /\ ~LeavesBox(step)) =>
                  (After.x = step.x /\ After.y = step.y /\ step.movedBy = step.here)]_vars

\* a particle two or more ticks old that is inside the box although the
\* midpoint of its last step had no data
W_C17 ==
    /\ wind.running /\ Len(TheParticle.trailX) >= 3
    /\ LET n == Len(TheParticle.trailX)
           prev == [x |-> TheParticle.trailX[n - 1], y |-> TheParticle.trailY[n - 1]]
       IN  NoDataAtMidpoint(StepFrom(prev, 300))
    /\ InsideBox(TheParticle)

\* the sampled speed at the particle's position is zero
OnStillCell(here) == here.ok /\ here.uu = 0 /\ here.vv = 0

\* C18 as stated: a particle on a zero-velocity cell is respawned by the tick.
CX_C18 == [][(IsTick /\ OnStillCell(Sample(wind.env, Before.x, Before.y))) => FreshlySpawned(After)]_vars

\* C18: a particle on a zero-velocity cell is not respawned for that: while
\* its TTL is positive a tick leaves it where it is and takes dt off its TTL,
\* and it is respawned by the tick that finds its TTL <= 0.
T_C18 ==
    [][(IsTick /\ OnStillCell(Sample(wind.env, Before.x, Before.y))) =>
        IF Before.ttl > 0
        THEN /\ ~FreshlySpawned(After)
             /\ After.x = Before.x /\ After.y = Before.y
             /\ After.ttl = Before.ttl - StepDt
             /\ After.speedMag = 0
        ELSE FreshlySpawned(After)]_vars

\* a particle that moved onto a zero-velocity cell and has stayed there for two ticks
W_C18 ==
    /\ wind.running /\ Len(TheParticle.trailX) >= 4
    /\ LET n == Len(TheParticle.trailX)
       IN  /\ TheParticle.trailX[n - 1] = TheParticle.x /\ TheParticle.trailX[n - 2] = TheParticle.x
           /\ TheParticle.trailY[n - 1] = TheParticle.y /\ TheParticle.trailY[n - 2] = TheParticle.y
           /\ TheParticle.trailX[n - 3] # TheParticle.x
    /\ Sample(wind.env, TheParticle.x, TheParticle.y).ok
    /\ TheParticle.speedMag = 0

\* ------------------------------------------------------------------------
\* Claims about failed loads
\* ------------------------------------------------------------------------

\* the step handles the failure of a request that is still the current one
CurrentFailed(Failed) == Failed /\ ~lastDone'.cancelled

\* nothing is held of a slice
NoSliceData(u) ==
    u.horizontalValues = 0 /\ u.transectValues = 0 /\ u.transectLatActual = 0 /\ u.classTraces = 0

\* what a failure of the current request does, layer by layer
FailureIsCaught ==
    /\ CurrentFailed(MetaFailed) =>
          ui.metaStatus = "loading" /\ ui'.metaStatus = "failed" /\ ui'.meta = 0 /\ ui'.metaError # 0
    /\ CurrentFailed(SliceFailed) =>
          /\ ui.sliceStatus = "loading" /\ ui'.sliceStatus = "failed" /\ ui'.sliceError # 0
          /\ NoSliceData(ui')
          /\ lastDone'.viewMode = "class" => (ui.classStatus = "loading" /\ ui'.classStatus = "failed")
    /\ CurrentFailed(SeaIceFailed) =>
          ui.seaIceStatus = "loading" /\ ui'.seaIceStatus = "failed" /\ ui'.seaIceValues = 0
    /\ CurrentFailed(WindFailed) =>
          ui.windStatus = "loading" /\ ui'.windStatus = "failed" /\ ui'.windStress = 0
    /\ CurrentFailed(HorizontalImageRejected) =>
          ui.horizontalImgStatus = "loading" /\ ui'.horizontalImgStatus = "failed" /\ ui'.horizontalImg = 0
    /\ CurrentFailed(TransectImgFailed) =>
          ui.transectImgStatus = "loading" /\ ui'.transectImgStatus = "failed" /\ ui'.transectImg = 0
    /\ (CurrentFailed(BathyLoaded) /\ ui'.bathyStatus # "file") =>
          ui.bathyStatus = "loading" /\ ui'.bathyStatus = "synthetic" /\ ui'.grid = 0

\* what the render path reads of a layer that failed: a status and null data
FailedHoldsNothing ==
    /\ ui.metaStatus = "failed" => ui.meta = 0
    /\ ui.sliceStatus = "failed" => NoSliceData(ui)
    /\ ui.seaIceStatus = "failed" => ui.seaIceValues = 0
    /\ ui.windStatus = "failed" => ui.windStress = 0
    /\ ui.horizontalImgStatus = "failed" => ui.horizontalImg = 0
    /\ ui.transectImgStatus = "failed" => ui.transectImg = 0
    /\ ui.bathyStatus = "synthetic" => ui.grid = 0

ValueOfPoint(lon, lat, depth) == DataAt(cls.in, (depth * cls.in.ny * cls.in.nx) + (lat * cls.in.nx) + lon)

\* the points of a class, as triples
PointsOf(t) == {<<t.x[k], t.y[k], t.z[k]>> : k \in 1..Len(t.x)}

\* C16: after the classification pass each class holds at most perClassCap
\* points (700 while playing, 1400 while paused), its x, y and z have one
\* length, no sample is held by two classes or twice by one, no class has
\* counted more samples than the pass read, and the value of every point held
\* lies within the half width of the centre of its class.
T_C16 ==
    (cls.on /\ cls.done) =>
        /\ \A k \in 1..Len(cls.classTraces) :
              LET t == cls.classTraces[k]
              IN  /\ Len(t.x) <= (IF cls.in.playing THEN 700 ELSE 1400)
                  /\ Len(t.x) = Len(t.y) /\ Len(t.y) = Len(t.z)
                  /\ Cardinality(PointsOf(t)) = Len(t.x)
                  /\ \A q \in PointsOf(t) :
                        /\ IsFinite(ValueOfPoint(q[1], q[2], q[3]))
                        /\ Abs(ValueOfPoint(q[1], q[2], q[3]).v - t.value) <= cls.in.settings.halfWidth
        /\ \A k, m \in 1..Len(cls.classTraces) :
              k # m => PointsOf(cls.classTraces[k]) \cap PointsOf(cls.classTraces[m]) = {}
        /\ \A k \in 1..Len(cls.traces) : cls.traces[k].seen <= cls.pos

\* a pass that met more samples of one class than the cap: the class is full
\* and some of its first points have been replaced
W_C16 ==
    /\ cls.on /\ cls.done
    /\ \E k \in 1..Len(cls.traces) :
          /\ cls.traces[k].seen > cls.c.perClassCap
          /\ Len(cls.traces[k].x) = cls.c.perClassCap
          /\ \E i \in 1..Len(cls.traces[k].x) : cls.traces[k].x[i] + (cls.in.nx * cls.traces[k].y[i]) >= cls.c.perClassCap
    /\ Len(cls.classTraces) = 2

\* ------------------------------------------------------------------------
\* Claims about the colour caches
\* ------------------------------------------------------------------------

\* C19: whatever the overlay parameter changes, the cache insertions and
\* the image loads have been, the horizontal colour cache holds no more
\* than its capacity of 24 entries and the transect curtain cache no more
\* than its capacity of 16 entries.
CX_C19 == Len(cache.horizontalColorCache) <= 24 /\ Len(cache.transectCurtainCache) <= 16

\* the value of the horizontalColor memo is what its body computes from the
\* props, the image and the axes that are current
HorizontalColorIsFresh ==
    cache.horizontalOverlay.enabled /\ cache.horizontalImg # NoImage
        => cache.horizontalColor
               = ComputeHorizontalColor(cache.horizontalOverlay, cache.horizontalImg, cache.axes)

\* the value of the transectCurtain memo is what its body computes from the
\* props, the image and the axes that are current
TransectCurtainIsFresh ==
    cache.transectOverlay.enabled /\ cache.transectImg # NoImage
        => cache.transectCurtain
               = ComputeTransectCurtain(cache.transectOverlay, cache.transectImg, cache.axes)

\* C20: a hit in the horizontal colour cache or in the transect curtain
\* cache returns what a fresh computation with the current inputs (image,
\* bounds, flips, colormap, value range, transect latitude, bathymetry
\* axes) produces, so the value of each memo is always the fresh one.
CX_C20 == HorizontalColorIsFresh /\ TransectCurtainIsFresh

\* ------------------------------------------------------------------------
\* Claims about the dry mask of valuesMasked
\* ------------------------------------------------------------------------

\* the cell is left to the bathymetry: its value is finite, the dry flag of
\* the plane is set, and neither the zero rule nor the bounds mask it
LeftToBathymetry(c) ==
    /\ SourceCell(c).t = "number"
    /\ mask.plane.maskDryByBathy
    /\ ~(mask.plane.zeroAsMissing /\ SourceCell(c) = Num(0))
    /\ ~OutOfBounds(c)

\* the depth of the bathymetry cell nearest to the cell is at or above sea level
NearestIsDry(c) ==
    /\ c[2] < mask.plane.x.len /\ c[1] < mask.plane.y.len
    /\ mask.bathy.z.at[Nearest(mask.bathy.lat, mask.plane.y.at[c[1]])]
                  .at[Nearest(mask.bathy.lon, mask.plane.x.at[c[2]])].v >= 0

\* the bathymetry comes from a file whose signed depths have an ocean depth
HasOceanDepth ==
    /\ mask.bathy.hasZRaw
    /\ \E i \in 0..(mask.bathy.zRaw.at[0].len - 1) : mask.bathy.zRaw.at[0].at[i].v < 0

T_C22 ==
    loop.running =>
        /\ loop.advected = loop.frames
        /\ Len(loop.pushed) <= loop.frames
        /\ \A k \in 1..(Len(loop.pushed) - 1) : loop.pushed[k + 1] - loop.pushed[k] >= 36
        /\ loop.windLastDrawTs = (IF loop.pushed = <<>> THEN 0 ELSE loop.pushed[Len(loop.pushed)])

\* C22 witness: a loop that pushed twice, in fewer callbacks than it ran,
\* with frames 16 ms apart among them
W_C22 ==
    /\ loop.running
    /\ Len(loop.pushed) >= 2
    /\ loop.frames >= Len(loop.pushed) + 2
    /\ loop.now - loop.windLastTs = 0
    /\ loop.pushed[2] - loop.pushed[1] = 48

\* the particle of the loop that is followed
Followed == loop.particles[1]

\* the last n entries of seq, in their order
Newest(seq, n) == [k \in 1..Min(n, Len(seq)) |-> seq[(Len(seq) - Min(n, Len(seq))) + k]]

\* the sizes a layer can ask for, in hundredths, and no size at all
TrailSizes == {[t |-> "undefined", v |-> 0]} \cup {Num(s) : s \in {0, 60, 92, 93, 110, 135, 140, 307, 308, 400}}

\* the trails of the followed particle are well formed
TrailsWellFormed ==
    loop.running =>
        /\ Len(Followed.trailX) = Len(Followed.trailY)
        /\ Len(Followed.trailX) \in 1..loop.env.trailLen
        /\ loop.env.trailLen \in 6..22
        /\ Followed.trailX[Len(Followed.trailX)] = Followed.x
        /\ Followed.trailY[Len(Followed.trailY)] = Followed.y

\* a callback that moved the followed particle appended the new position
\* and kept the newest trailLen positions in their order
TrailStep ==
    (loop'.frames = loop.frames + 1 /\ Len(loop'.particles[1].trailX) > 1) =>
        /\ loop'.particles[1].trailX = Newest(Append(Followed.trailX, loop'.particles[1].x), loop.env.trailLen)
        /\ loop'.particles[1].trailY = Newest(Append(Followed.trailY, loop'.particles[1].y), loop.env.trailLen)

\* C23: after every tick trailX and trailY of a particle have the same
\* length, between 1 and trailLen, with trailLen in 6..22 for every size;
\* their last entry is the particle's position; a tick that moves the
\* particle appends the position and drops the oldest entries beyond
\* trailLen, keeping the order of the others.
T_C23 ==
    /\ [](TrailsWellFormed /\ \A size \in TrailSizes : TrailLen([size |-> size]) \in 6..22)
    /\ [][TrailStep]_vars

\* C23 witness: a full trail of distinct positions whose first entry is no
\* position spawn() gives: the spawn position has been dropped
W_C23 ==
    /\ loop.running
    /\ Len(Followed.trailX) = loop.env.trailLen
    /\ \A k \in 1..(Len(Followed.trailX) - 1) : Followed.trailX[k] < Followed.trailX[k + 1]
    /\ \A q \in Spawn(loop.env) : q.x # Followed.trailX[1]

\* ------------------------------------------------------------------------
\* Claims about spawn (checked under SpecWind)
\* ------------------------------------------------------------------------

\* the particle of the effect that is followed, as spawn() returned it: no tick has moved it
Fresh == wind.running /\ Len(wind.particles[1].trailX) = 1

\* the random points of a pass of spawn at which the pass goes on to the next one
SpawnMisses(env) == {r \in Randoms \X Randoms : SpawnTry(env, r[1], r[2]) = {}}

\* p is what a pass of spawn returns: a point of the box where sample gives a speed above 0
FromPass(env, p) ==
    /\ p.speedMag > 0
    /\ Sample(env, p.x, p.y).ok
    /\ p.speedMag = Hypot(Sample(env, p.x, p.y).uu, Sample(env, p.x, p.y).vv)

\* p is what spawn returns after its loop: the centre of the box, at rest;
\* it is returned only if each of the 60 passes can go on to the next
FromFallback(env, p) ==
    /\ p.speedMag = 0
    /\ p.x = (env.lonMin + env.lonMax) \div 2
    /\ p.y = (env.latMin + env.latMax) \div 2
    /\ SpawnMisses(env) # {}
    /\ SpawnFrom({}, TRUE, {p}, 0) = {p}
    /\ SpawnFrom({}, TRUE, {p}, 60) = {p}

\* C24: the particle spawn() returns is valid: it is the point of a pass
\* where the sampled speed is above 0, or, after 60 passes without one, the
\* centre of the box with speed 0; in both cases its position lies in the
\* box of the axes, its time to live in [2, 8] s and its trails hold the
\* spawn position only.
T_C24 ==
    Fresh =>
        /\ FromPass(wind.env, wind.particles[1]) \/ FromFallback(wind.env, wind.particles[1])
        /\ ~OutsideBox(wind.env, wind.particles[1].x, wind.particles[1].y)
        /\ wind.particles[1].ttl >= 6000 /\ wind.particles[1].ttl <= 24000
        /\ wind.particles[1].trailX = <<wind.particles[1].x>>
        /\ wind.particles[1].trailY = <<wind.particles[1].y>>

\* C24 witness: the fallback particle, returned by a respawn in a field
\* where other passes return a moving particle
W_C24 ==
    /\ Fresh
    /\ wind.windLastTs # 0
    /\ FromFallback(wind.env, wind.particles[1])
    /\ \E q \in Spawn(wind.env) : FromPass(wind.env, q)

\* ------------------------------------------------------------------------
\* Claims about the trace list (checked under SpecData)
\* ------------------------------------------------------------------------

\* the place of a trace in the draw order, by its name
DrawRank(t) ==
    CASE t.name \in {"Ocean bathymetry", "Land (sea-level cap)", "Bathy"} -> 1
      [] t.name = "Bathy (textured)" -> 2
      [] t.name = "Overlay (surface)" -> 3
      [] t.name = "Plane" -> 4
      [] t.name = "Wind particles" -> 5
      [] t.name \in {"Class colorbar", "class legend", "class"} -> 6
      [] t.name \in {"Transect", ""} -> 7

\* C25: in the trace list of every combination of layers the bathymetry
\* and land surfaces come first, then the textured bathymetry, then the
\* overlay plane and the enabled planes in the order of their declaration,
\* then the wind traces, then the class traces, and the transect is last.
T_C25 ==
    scene.made =>
        \A i, j \in DOMAIN scene.data :
            i < j =>
                /\ DrawRank(scene.data[i]) <= DrawRank(scene.data[j])
                /\ DrawRank(scene.data[i]) < 7
                /\ (scene.data[i].name = "Plane" /\ scene.data[j].name = "Plane") =>
                       scene.data[i].src < scene.data[j].src

\* C25 witness: bathymetry with land, the overlay plane, two planes, the
\* wind, two classes and the transect of a field in one list
W_C25 ==
    /\ scene.made
    /\ {DrawRank(scene.data[k]) : k \in DOMAIN scene.data} = {1, 3, 4, 5, 6, 7}
    /\ \E i, j \in DOMAIN scene.data : scene.data[i].name = "Plane" /\ scene.data[j].name = "Plane" /\ i < j
    /\ \E k \in DOMAIN scene.data : scene.data[k].name = "Land (sea-level cap)"
    /\ scene.data[Len(scene.data)].name = "Transect"

\* C25 witness of the other bathymetry: the textured bathymetry first, the
\* curtain of the transect image last, a plane declared second between them
W_C25Textured ==
    /\ scene.made
    /\ scene.data # <<>>
    /\ scene.data[1].name = "Bathy (textured)"
    /\ scene.data[Len(scene.data)].name = ""
    /\ \E k \in DOMAIN scene.data : scene.data[k].name = "Plane" /\ scene.data[k].n = 1 /\ scene.data[k].src = 2

\* ------------------------------------------------------------------------
\* Claims about the curtain of the transect field (checked under SpecCurtain)
\* ------------------------------------------------------------------------

\* the first of the entries of axis that are nearest to x
FirstNearest(axis, x) ==
    CHOOSE k \in 0..(axis.len - 1) :
        /\ \A m \in 0..(axis.len - 1) : Abs(axis.at[k] - x) <= Abs(axis.at[m] - x)
        /\ \A m \in 0..(k - 1) : Abs(axis.at[m] - x) > Abs(axis.at[k] - x)

\* the seafloor under column i of the curtain: the bathymetry at the column
\* nearest to the longitude, on the row nearest to the latitude of the transect
Seafloor(i) ==
    transect.bathy.z.at[IF IsFinite(transect.t.lat) THEN FirstNearest(transect.bathy.lat, transect.t.lat.v) ELSE 0]
                  .at[FirstNearest(transect.bathy.lon, transect.t.lon.at[i])]

CurtainCells == {c \in (0..(transect.t.z.len - 1)) \X (0..(transect.t.lon.len - 1)) : TRUE}

\* the cell has a colour and a place
CurtainRendered(c) ==
    /\ IsFinite(transect.trace.surfacecolor.at[c[1]].at[c[2]])
    /\ IsFinite(transect.trace.z.at[c[1]].at[c[2]])

\* the cell has neither
CurtainHidden(c) ==
    /\ ~IsFinite(transect.trace.surfacecolor.at[c[1]].at[c[2]])
    /\ ~IsFinite(transect.trace.z.at[c[1]].at[c[2]])

\* the seafloor of the cell is known and lies above the depth of the cell
BelowSeafloor(c) == IsFinite(Seafloor(c[2])) /\ transect.t.z.at[c[1]].v < Seafloor(c[2]).v

\* C26: a cell of the curtain is rendered only if its value is finite and
\* its depth is not below the seafloor of the nearest bathymetry column on
\* the nearest bathymetry row; a rendered cell keeps its value, lies at the
\* scaled depth of its row and at the latitude of the transect; a cell
\* below its seafloor has neither colour nor place.
T_C26 ==
    transect.made =>
        \A c \in CurtainCells :
            /\ CurtainRendered(c) =>
                  /\ IsFinite(ToNumber(transect.t.values.at[c[1]].at[c[2]]))
                  /\ ~BelowSeafloor(c)
                  /\ transect.trace.surfacecolor.at[c[1]].at[c[2]] = ToNumber(transect.t.values.at[c[1]].at[c[2]])
                  /\ transect.trace.z.at[c[1]].at[c[2]] = ScaleZ(transect.warp, transect.t.z.at[c[1]])
                  /\ transect.trace.y.at[c[1]] = transect.t.lat
            /\ BelowSeafloor(c) => CurtainHidden(c)
            /\ CurtainRendered(c) \/ CurtainHidden(c)

\* C26 witness: a transect nearest to the second bathymetry row, whose
\* seafloors differ from those of the first row: a cell above its seafloor
\* is rendered at its warped depth, a cell with a finite value below its
\* seafloor is hidden though the first row would have let it show
W_C26 ==
    /\ transect.made
    /\ transect.t.lat = Num(62)
    /\ transect.warp.mode = "upper"
    /\ \E c \in CurtainCells :
          /\ CurtainRendered(c)
          /\ IsFinite(Seafloor(c[2]))
          /\ transect.trace.z.at[c[1]].at[c[2]] = transect.t.z.at[c[1]]
    /\ \E c \in CurtainCells :
          /\ BelowSeafloor(c)
          /\ CurtainHidden(c)
          /\ IsFinite(ToNumber(transect.t.values.at[c[1]].at[c[2]]))
          /\ ~IsFinite(transect.bathy.z.at[0].at[FirstNearest(transect.bathy.lon, transect.t.lon.at[c[2]])])
    /\ \E c \in CurtainCells :
          /\ CurtainRendered(c)
          /\ transect.trace.z.at[c[1]].at[c[2]] # transect.t.z.at[c[1]]

\* ------------------------------------------------------------------------
\* Claims about the alpha of the sampled pixels (checked under SpecCache)
\* ------------------------------------------------------------------------

\* the pixel of the image held that cell (j, i) of the horizontal colour grid is sampled from
HorizontalPixel(j, i) ==
    GetPixelRGBA(cache.horizontalImg,
                 (IF cache.horizontalOverlay.flipLon
                  THEN cache.horizontalOverlay.bounds.lonMax - cache.axes.lon[i]
                  ELSE cache.axes.lon[i] - cache.horizontalOverlay.bounds.lonMin) * (cache.horizontalImg.width - 1),
                 cache.horizontalOverlay.bounds.lonMax - cache.horizontalOverlay.bounds.lonMin,
                 (IF cache.horizontalOverlay.flipLat
                  THEN cache.axes.lat[j] - cache.horizontalOverlay.bounds.latMin
                  ELSE cache.horizontalOverlay.bounds.latMax - cache.axes.lat[j]) * (cache.horizontalImg.height - 1),
                 cache.horizontalOverlay.bounds.latMax - cache.horizontalOverlay.bounds.latMin)

\* the pixel of the image held that cell (j, i) of the transect curtain is sampled from
TransectPixel(j, i) ==
    GetPixelRGBA(cache.transectImg,
                 (cache.transectCurtain.x[i] - cache.transectOverlay.bounds.lonMin) * (cache.transectImg.width - 1),
                 cache.transectOverlay.bounds.lonMax - cache.transectOverlay.bounds.lonMin,
                 (j - 1) * (cache.transectImg.height - 1),
                 Len(cache.transectCurtain.z) - 1)

\* the horizontal colour grid was computed from the props, image and axes that are current
HorizontalComputed ==
    /\ cache.horizontalOverlay.enabled /\ cache.horizontalImg # NoImage
    /\ ~cache.horizontalColor.isNull
    /\ cache.horizontalColor = ComputeHorizontalColor(cache.horizontalOverlay, cache.horizontalImg, cache.axes)

\* the transect curtain was computed from the props, image and axes that are current
TransectComputed ==
    /\ cache.transectOverlay.enabled /\ cache.transectImg # NoImage
    /\ ~cache.transectCurtain.isNull
    /\ cache.transectCurtain = ComputeTransectCurtain(cache.transectOverlay, cache.transectImg, cache.axes)

\* in the horizontal colour grid a cell is missing exactly where the alpha of its pixel is below 10
HorizontalAlphaMissing ==
    HorizontalComputed =>
        \A j \in DOMAIN cache.horizontalColor.surfacecolor :
            \A i \in DOMAIN cache.horizontalColor.surfacecolor[j] :
                (HorizontalPixel(j, i).a < 10) <=> (cache.horizontalColor.surfacecolor[j][i] = NaN)

\* in the transect curtain a cell whose pixel has an alpha below 10 holds no palette index
TransectAlphaMissing ==
    TransectComputed =>
        \A j \in DOMAIN cache.transectCurtain.surfacecolor :
            \A i \in DOMAIN cache.transectCurtain.surfacecolor[j] :
                (TransectPixel(j, i).a < 10) => (cache.transectCurtain.surfacecolor[j][i] \notin 0..255)

\* C27: a sampled pixel with an alpha below 10 is missing in the colour
\* grid, in the horizontal overlay and in the transect curtain alike: only
\* a pixel with an alpha of 10 or more gets a palette index or a value.
CX_C27 == HorizontalAlphaMissing /\ TransectAlphaMissing

\* a horizontal colour grid with a missing cell from a clear pixel next to a coloured one
HorizontalClearSampled ==
    /\ HorizontalComputed
    /\ \E j \in DOMAIN cache.horizontalColor.surfacecolor :
          \E i, k \in DOMAIN cache.horizontalColor.surfacecolor[j] :
              /\ HorizontalPixel(j, i).a < 10
              /\ HorizontalPixel(j, k).a >= 10

\* ------------------------------------------------------------------------
\* Claims about the life of the animation loop (checked under SpecLoop)
\* ------------------------------------------------------------------------

\* at most one callback waits, and it is the one of the current run of the
\* effect that windAnimRafRef names; none waits for a component that is
\* unmounted or whose effect returned early
OneLoopAlive ==
    /\ Cardinality(loop.queue) <= 1
    /\ \A cb \in loop.queue : cb.gen = loop.gen /\ cb.id = loop.windAnimRaf /\ loop.mounted /\ loop.running
    /\ loop.lastTickOf \in {0, loop.gen}
    /\ ~loop.running => loop.particles = <<>> /\ loop.windLastTs = 0 /\ loop.windLastDrawTs = 0

\* a step that ends a loop (a change of the layer or the warp, or the
\* unmount) leaves none of its callbacks waiting and both timestamps at 0,
\* and the pool empty or newly spawned
LoopEnded ==
    (loop.running /\ (loop'.gen # loop.gen \/ ~loop'.mounted)) =>
        /\ loop'.queue \cap loop.queue = {}
        /\ loop'.windLastTs = 0 /\ loop'.windLastDrawTs = 0
        /\ \A k \in DOMAIN loop'.particles : Len(loop'.particles[k].trailX) = 1

\* a callback that runs is one of the current run of the effect
TickOfCurrent == (loop'.now # loop.now) => (loop'.gen = loop.gen /\ loop'.lastTickOf = loop.gen /\ loop.running)

\* C28: at most one animation loop of the wind is alive: a change of the
\* wind layer or of the warp, and the unmount, cancel the waiting callback
\* and reset the pool and both timestamps before a new loop starts, and
\* afterwards no callback of the old loop runs.
T_C28 == []OneLoopAlive /\ [][LoopEnded /\ TickOfCurrent]_vars

\* C28 witness: the second loop has run a callback after the first one, which
\* had run callbacks and pushed a redraw, was ended by a change of its inputs
W_C28 ==
    /\ loop.running /\ loop.gen = 2
    /\ loop.frames >= 1 /\ loop.lastTickOf = 2
    /\ loop.nextId >= loop.frames + 5
    /\ Cardinality(loop.queue) = 1

\* ------------------------------------------------------------------------
\* Claims about the respawn of the particles (checked under SpecWindFair)
\* ------------------------------------------------------------------------

\* the time to live of the followed particle
FollowedTtl == wind.particles[1].ttl

\* a frame of the running loop either respawns the particle or lowers its
\* time to live by dt: 1/60 s in the first frame, else the time since the
\* last frame clamped to [0.001, 0.1] s; it respawns a particle that has no
\* time left
TtlStep ==
    (wind.running /\ wind'.running) =>
        /\ Len(wind'.particles[1].trailX) > 1 =>
              /\ FollowedTtl > 0
              /\ FollowedTtl - wind'.particles[1].ttl \in 3..300
              /\ wind.windLastTs = 0 => FollowedTtl - wind'.particles[1].ttl = 50
              /\ wind.windLastTs # 0 => FollowedTtl - wind'.particles[1].ttl \in {3, 300}
        /\ FollowedTtl <= 0 => Len(wind'.particles[1].trailX) = 1

\* a spawned particle has a time to live of 2 s or more and less than 8 s
TtlAtSpawn == Fresh => (FollowedTtl >= 6000 /\ FollowedTtl < 24000)

\* C29: while the loop keeps ticking the particle is respawned again and
\* again: its time to live starts below 8 s, each frame that does not
\* respawn it lowers it by dt in [0.001, 0.1] s (1/60 s in the first frame,
\* 0.001 s for a timestamp that does not increase), and a particle with no
\* time left is respawned by the next frame.
T_C29 == []<>(~wind.running \/ Fresh) /\ []TtlAtSpawn /\ [][TtlStep]_vars

\* C29 witness: a particle at rest in still air whose time to live has run
\* out under frames of both kinds: only the next frame can respawn it
W_C29 ==
    /\ wind.running
    /\ wind.particles[1].speedMag = 0
    /\ FollowedTtl <= 0
    /\ FollowedTtl % 300 # 250
    /\ Len(wind.particles[1].trailX) = wind.env.trailLen

\* ------------------------------------------------------------------------
\* Claims about playback (App)
\* ------------------------------------------------------------------------

\* the step is a firing of the timer
TimerFired == play'.tick # play.tick

\* the index after i among n time steps: one more, 0 after the last
Stepped(i, n) == IF i + 1 >= n THEN 0 ELSE i + 1

\* a firing happens with playback on and leaves the index or steps it by one
StepsByOne == TimerFired => (play.playing /\ play'.timeIdx \in {play.timeIdx, Stepped(play.timeIdx, play.n)})

\* a firing leaves the index alone when the slice is loading
HeldWhileLoading == (TimerFired /\ play.sliceStatus = "loading") => play'.timeIdx = play.timeIdx

\* a firing leaves the index alone when the timer was set while the slice was loading
HeldByTimer == (TimerFired /\ play.timer.sliceStatus = "loading") => play'.timeIdx = play.timeIdx

\* once the playback effect has run, the timer holds the status of the slice
TimerCurrent == (~play.stale /\ play.timer.on) => play.timer.sliceStatus = play.sliceStatus

\* the index used for loading lies in [0, max(0, length - 1)]
SafeInRange == SafeTimeIdx(play.timeIdx, play.n) \in 0..Max(0, play.n - 1)

\* without playback no timer is set
NoTimerWhenOff == ~play.playing => ~play.timer.on

\* C30: while playing, a firing of the timer steps the time index by exactly
\* one, to 0 after the last time step, and leaves it alone while the status
\* of the slice is "loading"; with playback off no timer changes it; the
\* index used for loading lies in [0, max(0, number of time steps - 1)].
CX_C30 == [][StepsByOne /\ HeldWhileLoading]_vars /\ [](SafeInRange /\ NoTimerWhenOff)

\* the part of C30 that holds: steps of one with playback on, none by a timer
\* that was set while the slice was loading, and the index in its range
PlaybackHolds == [][StepsByOne /\ HeldByTimer]_vars /\ [](SafeInRange /\ NoTimerWhenOff /\ TimerCurrent)

\* a timer set while the slice was ready is still set after the slice has
\* begun to load, at the last time step
StaleTimerAtLast ==
    /\ play.timer.on /\ play.stale
    /\ play.timer.sliceStatus = "ready" /\ play.sliceStatus = "loading"
    /\ play.n = MaxSteps /\ play.timeIdx = MaxSteps - 1

====
